---- MODULE Spec2Model ----
(***************************************************************************)
(* A model of the judge evaluation pipeline of vibexml_evaluation:         *)
(* LLMJudge (judge.py), LLMLEvaluator (evaluator.py), the provider's       *)
(* structured call (providers.py), JudgmentAnalyzer.analyze_judgments and  *)
(* StatisticalAnalysisReporter (academic_enhancements.py).                 *)
(*                                                                         *)
(* Encodings.  A text is a sequence of characters, "w" for a non-blank     *)
(* character and " " for whitespace.  Overall and criterion scores are     *)
(* Python floats that are whole or half points: they are kept in half      *)
(* points (Half(60) = 120).  A quotient is the pair [num, den].  None is   *)
(* the empty sequence.  The process-wide generator of the random module is *)
(* a deterministic generator over RngMod states.                           *)
(***************************************************************************)
EXTENDS Integers, Sequences, FiniteSets, TLC

(* ---------------------------------------------------------------- bounds *)
MaxCases == 2       \* longest test-case list handed to run_evaluation
RngMod == 8         \* number of states of the generator
MaxSeed == 1        \* seeds are 0..MaxSeed
MaxJudgments == 4   \* longest judgment list handed to analyze_judgments directly
MaxSample == 5      \* longest score list handed to the statistical analyzer
MaxComparisons == 10 \* most judgments of a run handed to the reporter directly
MaxJudges == 3      \* most judges (columns) of a judgments matrix
MaxRated == 2       \* most cases (rows) of a judgments matrix

(* ----------------------------------------------------- program constants *)
MinScore == 60
MaxScore == 95
MinConfidence == 50
MaxConfidence == 100
MinReasoning == 50
WordsPerStep == 10
PointsPerStep == 5
ScoreCap == 100
TieMargin == 5
FallbackConfidence == 50

None == << >>
Instances == {1, 2}

Half(x) == 2 * x
Min(a, b) == IF a <= b THEN a ELSE b
Abs(x) == IF x < 0 THEN 0 - x ELSE x

RECURSIVE SumSeq(_)
SumSeq(s) == IF s = << >> THEN 0 ELSE Head(s) + SumSeq(Tail(s))

Quot(n, d) == [num |-> n, den |-> d]

(* ------------------------------------------------------------ test cases *)
\* StructuredTestCase: name, task, category, expected_advantages
TestCase(n, c) ==
    [name |-> n, task |-> <<"task", n>>, category |-> c,
     expected_advantages |-> <<<<"adv1", n>>, <<"adv2", n>>>>]

\* TestCaseDataset.get_all_cases, its first cases of three categories
AllCases ==
    << TestCase("nested_conditional_logic", "structured_advantage"),
       TestCase("basic_factual_question", "neutral"),
       TestCase("workflow_dependencies", "structured_advantage"),
       TestCase("creative_story_writing", "creative") >>

(* ----------------------------------------------------------------- texts *)
\* a text of n words separated by single blanks
Words(n) == [i \in 1..(IF n = 0 THEN 0 ELSE 2 * n - 1) |->
                IF i % 2 = 1 THEN "w" ELSE " "]

\* len(text.split()): the number of maximal runs of non-blank characters
WordCount(t) ==
    Cardinality({i \in 1..Len(t) : t[i] # " " /\ (i = 1 \/ t[i - 1] = " ")})

(* ------------------------------------------------------------------- rng *)
\* random.seed(s): the state is a function of the seed alone
SeedState(s) == s % RngMod

\* one step of the generator
Advance(s) == (5 * s + 1) % RngMod

\* random.choice([True, False]) from state s: the element picked
Choice(s) == <<TRUE, FALSE>>[((2 * Advance(s)) \div RngMod) + 1]

\* the first n choices drawn from state s with nothing else drawing
RECURSIVE ChoiceStream(_, _)
ChoiceStream(s, n) ==
    IF n = 0 THEN << >> ELSE <<Choice(s)>> \o ChoiceStream(Advance(s), n - 1)

(* ------------------------------------------------------- judge: schema *)
Criteria ==
    {"accuracy_completeness", "structured_data_utilization",
     "precision_specificity", "logical_flow_organization",
     "contextual_understanding"}

CriteriaOrder ==
    <<"accuracy_completeness", "structured_data_utilization",
      "precision_specificity", "logical_flow_organization",
      "contextual_understanding">>

Winners == {"A", "B", "TIE"}

\* CriteriaScores: every field an int in [MinScore, MaxScore]
ValidCriteriaScores(cs) ==
    /\ DOMAIN cs = Criteria
    /\ \A c \in Criteria : cs[c] \in MinScore..MaxScore

\* StructuredJudgment, as pydantic validates it
ValidStructuredJudgment(v) ==
    /\ v.winner \in Winners
    /\ ValidCriteriaScores(v.response_a_scores)
    /\ ValidCriteriaScores(v.response_b_scores)
    /\ v.response_a_overall \in MinScore..MaxScore
    /\ v.response_b_overall \in MinScore..MaxScore
    /\ v.confidence \in MinConfidence..MaxConfidence
    /\ Len(v.reasoning) >= MinReasoning

FallbackReasoning == "Fallback judgment due to parsing error"

(* ------------------------------------------------------- judge: prompt *)
\* the text of the prompt: its fixed lines and the values interpolated
PromptText(test_case_name, task, expected_advantages, label_a, response_a, label_b, response_b) ==
    << "EVALUATION CONTEXT", test_case_name, "TASK", task,
       "KEY EVALUATION FACTORS", expected_advantages,
       label_a, response_a, label_b, response_b,
       "EVALUATION CRITERIA" >>

\* labels that name the format of each response
create_judgment_prompt_revealing(test_case_name, task, expected_advantages, raw_text_response, vibexml_response, raw_text_is_a) ==
    IF raw_text_is_a
    THEN [prompt |-> PromptText(test_case_name, task, expected_advantages,
                                "Response A (unstructured)", raw_text_response,
                                "Response B (structured)", vibexml_response),
          raw_text_is_a |-> raw_text_is_a]
    ELSE [prompt |-> PromptText(test_case_name, task, expected_advantages,
                                "Response A (structured)", vibexml_response,
                                "Response B (unstructured)", raw_text_response),
          raw_text_is_a |-> raw_text_is_a]

\* create_judgment_prompt with the choice drawn: (prompt, raw_text_is_a)
create_judgment_prompt(test_case_name, task, expected_advantages, raw_text_response, vibexml_response, raw_text_is_a) ==
    IF raw_text_is_a
    THEN [prompt |-> PromptText(test_case_name, task, expected_advantages,
                                "Response A", raw_text_response,
                                "Response B", vibexml_response),
          raw_text_is_a |-> raw_text_is_a]
    ELSE [prompt |-> PromptText(test_case_name, task, expected_advantages,
                                "Response A", vibexml_response,
                                "Response B", raw_text_response),
          raw_text_is_a |-> raw_text_is_a]

(* ----------------------------------------------------- provider: oracle *)
FailureKinds == {"schema", "parse", "oracle_error", "timeout"}

\* a provider that answers a schema failure with a default object
generate_structured_response_default(agent) ==
    IF agent.kind = "ok"
    THEN [raised |-> FALSE, data |-> agent.data]
    ELSE IF agent.kind = "schema"
    THEN [raised |-> FALSE,
          data |-> [winner |-> "TIE",
                    response_a_scores |-> [c \in Criteria |-> MinScore],
                    response_b_scores |-> [c \in Criteria |-> MinScore],
                    response_a_overall |-> MinScore,
                    response_b_overall |-> MinScore,
                    confidence |-> MinConfidence,
                    reasoning |-> FallbackReasoning,
                    main_advantages |-> << >>]]
    ELSE [raised |-> TRUE, exc |-> "Exception"]

\* generate_structured_response: the agent's data, or whatever the agent
\* raised wrapped in one Exception
generate_structured_response(agent) ==
    IF agent.kind = "ok"
    THEN [raised |-> FALSE, data |-> agent.data]
    ELSE [raised |-> TRUE, exc |-> "Exception"]

(* ---------------------------------------------------- judge: the result *)
JudgmentResult(test_case_name, winner, confidence, raw_text_score, vibexml_score, reasoning, criteria_scores) ==
    [test_case_name |-> test_case_name, winner |-> winner,
     confidence |-> confidence, raw_text_score |-> raw_text_score,
     vibexml_score |-> vibexml_score, reasoning |-> reasoning,
     criteria_scores |-> criteria_scores]

\* one table for both assignments
winner_map_fixed(raw_text_is_a) ==
    [A |-> "raw_text", B |-> "vibexml", TIE |-> "tie"]

\* winner_map of judge_responses, chosen by raw_text_is_a
winner_map(raw_text_is_a) ==
    IF raw_text_is_a
    THEN [A |-> "raw_text", B |-> "vibexml", TIE |-> "tie"]
    ELSE [A |-> "vibexml", B |-> "raw_text", TIE |-> "tie"]

\* the result also records which response was shown as Response A
map_judgment_keeps_assignment(test_case_name, sj, raw_text_is_a) ==
    LET side_a == [overall |-> sj.response_a_overall,
                   scores |-> sj.response_a_scores]
        side_b == [overall |-> sj.response_b_overall,
                   scores |-> sj.response_b_scores]
        raw_text == IF raw_text_is_a THEN side_a ELSE side_b
        vibexml == IF raw_text_is_a THEN side_b ELSE side_a
        base == JudgmentResult(test_case_name,
                    winner_map(raw_text_is_a)[sj.winner], sj.confidence,
                    Half(raw_text.overall), Half(vibexml.overall),
                    sj.reasoning,
                    [c \in Criteria |->
                        [raw_text |-> Half(raw_text.scores[c]),
                         vibexml |-> Half(vibexml.scores[c])]])
    IN  [f \in DOMAIN base \cup {"raw_text_is_a"} |->
            IF f = "raw_text_is_a" THEN raw_text_is_a ELSE base[f]]

\* the else branch copies the criterion scores unmirrored
map_judgment_unmirrored(test_case_name, sj, raw_text_is_a) ==
    LET raw_text_score == IF raw_text_is_a THEN sj.response_a_overall
                          ELSE sj.response_b_overall
        vibexml_score == IF raw_text_is_a THEN sj.response_b_overall
                         ELSE sj.response_a_overall
        winner == winner_map(raw_text_is_a)[sj.winner]
        criteria_scores ==
            [c \in Criteria |-> [raw_text |-> Half(sj.response_a_scores[c]),
                                 vibexml |-> Half(sj.response_b_scores[c])]]
    IN  JudgmentResult(test_case_name, winner, sj.confidence,
                       Half(raw_text_score), Half(vibexml_score),
                       sj.reasoning, criteria_scores)

\* the try block of judge_responses after the oracle returned sj
map_judgment(test_case_name, sj, raw_text_is_a) ==
    LET raw_text_score == IF raw_text_is_a THEN sj.response_a_overall
                          ELSE sj.response_b_overall
        vibexml_score == IF raw_text_is_a THEN sj.response_b_overall
                         ELSE sj.response_a_overall
        raw_text_criteria == IF raw_text_is_a THEN sj.response_a_scores
                             ELSE sj.response_b_scores
        vibexml_criteria == IF raw_text_is_a THEN sj.response_b_scores
                            ELSE sj.response_a_scores
        winner == winner_map(raw_text_is_a)[sj.winner]
        criteria_scores ==
            [c \in Criteria |-> [raw_text |-> Half(raw_text_criteria[c]),
                                 vibexml |-> Half(vibexml_criteria[c])]]
    IN  JudgmentResult(test_case_name, winner, sj.confidence,
                       Half(raw_text_score), Half(vibexml_score),
                       sj.reasoning, criteria_scores)

\* the score without its cap
fallback_score_uncapped(text) ==
    (Half(PointsPerStep) * WordCount(text)) \div WordsPerStep

\* min(len(text.split()) / 10 * 5, 100), in half points
fallback_score(text) ==
    Min((Half(PointsPerStep) * WordCount(text)) \div WordsPerStep,
        Half(ScoreCap))

\* a tie reported with the oracle's label TIE
fallback_judgment_upper_tie(test_case_name, raw_text_response, vibexml_response) ==
    LET raw_text_score == fallback_score(raw_text_response)
        vibexml_score == fallback_score(vibexml_response)
        winner == IF Abs(raw_text_score - vibexml_score) < Half(TieMargin)
                  THEN "TIE"
                  ELSE IF raw_text_score > vibexml_score THEN "raw_text"
                  ELSE "vibexml"
    IN  JudgmentResult(test_case_name, winner, FallbackConfidence,
                       raw_text_score, vibexml_score, FallbackReasoning,
                       [c \in {"fallback"} |->
                           [raw_text |-> raw_text_score,
                            vibexml |-> vibexml_score]])

\* the heuristic scores are filed under the five standard criteria
fallback_judgment_standard_criteria(test_case_name, raw_text_response, vibexml_response) ==
    LET raw_text_score == fallback_score(raw_text_response)
        vibexml_score == fallback_score(vibexml_response)
        winner == IF Abs(raw_text_score - vibexml_score) < Half(TieMargin)
                  THEN "tie"
                  ELSE IF raw_text_score > vibexml_score THEN "raw_text"
                  ELSE "vibexml"
    IN  JudgmentResult(test_case_name, winner, FallbackConfidence,
                       raw_text_score, vibexml_score, FallbackReasoning,
                       [c \in Criteria |->
                           [raw_text |-> raw_text_score,
                            vibexml |-> vibexml_score]])

\* the fallback explains itself at the length asked of the judge
fallback_judgment_long_reasoning(test_case_name, raw_text_response, vibexml_response) ==
    LET raw_text_score == fallback_score(raw_text_response)
        vibexml_score == fallback_score(vibexml_response)
        winner == IF Abs(raw_text_score - vibexml_score) < Half(TieMargin)
                  THEN "tie"
                  ELSE IF raw_text_score > vibexml_score THEN "raw_text"
                  ELSE "vibexml"
    IN  JudgmentResult(test_case_name, winner, FallbackConfidence,
                       raw_text_score, vibexml_score,
                       "Fallback judgment due to parsing error: word counts compared",
                       [fallback |-> [raw_text |-> raw_text_score,
                                      vibexml |-> vibexml_score]])

\* the heuristic result takes the look of a judged one: the five standard
\* criteria and a reasoning of the judge's length
fallback_judgment_unmarked(test_case_name, raw_text_response, vibexml_response) ==
    LET raw_text_score == fallback_score(raw_text_response)
        vibexml_score == fallback_score(vibexml_response)
        winner == IF Abs(raw_text_score - vibexml_score) < Half(TieMargin)
                  THEN "tie"
                  ELSE IF raw_text_score > vibexml_score THEN "raw_text"
                  ELSE "vibexml"
    IN  JudgmentResult(test_case_name, winner, FallbackConfidence,
                       raw_text_score, vibexml_score,
                       "The responses were compared by the number of their words only.",
                       [c \in Criteria |->
                           [raw_text |-> raw_text_score,
                            vibexml |-> vibexml_score]])

\* _fallback_judgment
fallback_judgment(test_case_name, raw_text_response, vibexml_response) ==
    LET raw_text_score == fallback_score(raw_text_response)
        vibexml_score == fallback_score(vibexml_response)
        winner == IF Abs(raw_text_score - vibexml_score) < Half(TieMargin)
                  THEN "tie"
                  ELSE IF raw_text_score > vibexml_score THEN "raw_text"
                  ELSE "vibexml"
    IN  JudgmentResult(test_case_name, winner, FallbackConfidence,
                       raw_text_score, vibexml_score, FallbackReasoning,
                       [c \in {"fallback"} |->
                           [raw_text |-> raw_text_score,
                            vibexml |-> vibexml_score]])

\* a handler that catches validation errors only
CaughtValidationOnly(exc) == exc \in {"ValidationError"}

\* except Exception: every exception the structured call raises is caught
Caught(exc) == exc \in {"Exception"}

\* the fallback is handed the responses in the order they were shown
judge_responses_fallback_by_label(test_case_name, raw_text_response, vibexml_response, raw_text_is_a, reply) ==
    IF ~reply.raised
    THEN [raised |-> FALSE,
          value |-> map_judgment(test_case_name, reply.data, raw_text_is_a)]
    ELSE IF Caught(reply.exc)
    THEN [raised |-> FALSE,
          value |-> IF raw_text_is_a
                    THEN fallback_judgment(test_case_name, raw_text_response,
                                           vibexml_response)
                    ELSE fallback_judgment(test_case_name, vibexml_response,
                                           raw_text_response)]
    ELSE [raised |-> TRUE, exc |-> reply.exc]

\* judge_responses from the point where the oracle call ends with `reply`:
\* the value returned, or the exception that leaves the function
judge_responses(test_case_name, raw_text_response, vibexml_response, raw_text_is_a, reply) ==
    IF ~reply.raised
    THEN [raised |-> FALSE,
          value |-> map_judgment(test_case_name, reply.data, raw_text_is_a)]
    ELSE IF Caught(reply.exc)
    THEN [raised |-> FALSE,
          value |-> fallback_judgment(test_case_name, raw_text_response,
                                      vibexml_response)]
    ELSE [raised |-> TRUE, exc |-> reply.exc]

(* -------------------------------------------------- judge: the analyzer *)
CountWinner(judgments, w) ==
    Cardinality({i \in DOMAIN judgments : judgments[i].winner = w})

\* case_categories.get(name, "unknown"): a later test case of the same name
\* overrides an earlier one
CategoryOf(test_cases, name) ==
    LET at == {i \in DOMAIN test_cases : test_cases[i].name = name}
    IN  IF at = {} THEN "unknown"
        ELSE test_cases[CHOOSE i \in at : \A j \in at : j <= i].category

\* every average is taken over the number of all results
criteria_analysis_all_results(judgments) ==
    IF judgments = << >> THEN << >>
    ELSE [criterion \in DOMAIN judgments[1].criteria_scores |->
            LET having == SelectSeq(judgments,
                              LAMBDA j : criterion \in DOMAIN j.criteria_scores)
                raw_scores == [i \in DOMAIN having |->
                                  having[i].criteria_scores[criterion].raw_text]
                vibexml_scores == [i \in DOMAIN having |->
                                  having[i].criteria_scores[criterion].vibexml]
            IN  [raw_text_avg |-> Quot(SumSeq(raw_scores), Len(judgments)),
                 vibexml_avg |->
                     Quot(SumSeq(vibexml_scores), Len(judgments)),
                 vibexml_advantage |->
                     Quot(SumSeq(vibexml_scores) - SumSeq(raw_scores),
                          Len(judgments))]]

\* the criteria are those of the last result
criteria_analysis_last_keys(judgments) ==
    IF judgments = << >> THEN << >>
    ELSE [criterion \in DOMAIN judgments[Len(judgments)].criteria_scores |->
            LET having == SelectSeq(judgments,
                              LAMBDA j : criterion \in DOMAIN j.criteria_scores)
                raw_scores == [i \in DOMAIN having |->
                                  having[i].criteria_scores[criterion].raw_text]
                vibexml_scores == [i \in DOMAIN having |->
                                  having[i].criteria_scores[criterion].vibexml]
            IN  [raw_text_avg |-> Quot(SumSeq(raw_scores), Len(raw_scores)),
                 vibexml_avg |->
                     Quot(SumSeq(vibexml_scores), Len(vibexml_scores)),
                 vibexml_advantage |->
                     Quot(SumSeq(vibexml_scores) - SumSeq(raw_scores),
                          Len(raw_scores))]]

\* criteria_analysis of analyze_judgments
criteria_analysis(judgments) ==
    IF judgments = << >> THEN << >>
    ELSE [criterion \in DOMAIN judgments[1].criteria_scores |->
            LET having == SelectSeq(judgments,
                              LAMBDA j : criterion \in DOMAIN j.criteria_scores)
                raw_scores == [i \in DOMAIN having |->
                                  having[i].criteria_scores[criterion].raw_text]
                vibexml_scores == [i \in DOMAIN having |->
                                  having[i].criteria_scores[criterion].vibexml]
            IN  [raw_text_avg |-> Quot(SumSeq(raw_scores), Len(raw_scores)),
                 vibexml_avg |->
                     Quot(SumSeq(vibexml_scores), Len(vibexml_scores)),
                 vibexml_advantage |->
                     Quot(SumSeq(vibexml_scores) - SumSeq(raw_scores),
                          Len(raw_scores))]]

\* every category of the test case list is reported, members or not
category_analysis_zero_filled(judgments, test_cases) ==
    IF test_cases = << >> THEN << >>
    ELSE
    LET categories == {CategoryOf(test_cases, judgments[i].test_case_name) :
                          i \in DOMAIN judgments}
                      \cup {test_cases[i].category : i \in DOMAIN test_cases}
    IN  [category \in categories |->
            LET cat_judgments ==
                    SelectSeq(judgments, LAMBDA j :
                        CategoryOf(test_cases, j.test_case_name) = category)
                cat_total == Len(cat_judgments)
                sum_raw == SumSeq([i \in DOMAIN cat_judgments |->
                                      cat_judgments[i].raw_text_score])
                sum_vibexml == SumSeq([i \in DOMAIN cat_judgments |->
                                      cat_judgments[i].vibexml_score])
            IN  [total_tests |-> cat_total,
                 vibexml_wins |-> CountWinner(cat_judgments, "vibexml"),
                 raw_text_wins |-> CountWinner(cat_judgments, "raw_text"),
                 ties |-> CountWinner(cat_judgments, "tie"),
                 vibexml_win_rate |->
                     Quot(CountWinner(cat_judgments, "vibexml") * 100,
                          cat_total),
                 raw_text_win_rate |->
                     Quot(CountWinner(cat_judgments, "raw_text") * 100,
                          cat_total),
                 avg_raw_text_score |-> Quot(sum_raw, cat_total),
                 avg_vibexml_score |-> Quot(sum_vibexml, cat_total),
                 vibexml_advantage |-> Quot(sum_vibexml - sum_raw, cat_total),
                 test_cases |-> [i \in DOMAIN cat_judgments |->
                                    cat_judgments[i].test_case_name]]]

\* the results that name no test case of the list are left out
category_analysis_known_only(judgments, test_cases) ==
    IF test_cases = << >> THEN << >>
    ELSE
    LET categories == {CategoryOf(test_cases, judgments[i].test_case_name) :
                          i \in DOMAIN judgments} \ {"unknown"}
    IN  [category \in categories |->
            LET cat_judgments ==
                    SelectSeq(judgments, LAMBDA j :
                        CategoryOf(test_cases, j.test_case_name) = category)
                cat_total == Len(cat_judgments)
                sum_raw == SumSeq([i \in DOMAIN cat_judgments |->
                                      cat_judgments[i].raw_text_score])
                sum_vibexml == SumSeq([i \in DOMAIN cat_judgments |->
                                      cat_judgments[i].vibexml_score])
            IN  [total_tests |-> cat_total,
                 vibexml_wins |-> CountWinner(cat_judgments, "vibexml"),
                 raw_text_wins |-> CountWinner(cat_judgments, "raw_text"),
                 ties |-> CountWinner(cat_judgments, "tie"),
                 vibexml_win_rate |->
                     Quot(CountWinner(cat_judgments, "vibexml") * 100,
                          cat_total),
                 raw_text_win_rate |->
                     Quot(CountWinner(cat_judgments, "raw_text") * 100,
                          cat_total),
                 avg_raw_text_score |-> Quot(sum_raw, cat_total),
                 avg_vibexml_score |-> Quot(sum_vibexml, cat_total),
                 vibexml_advantage |-> Quot(sum_vibexml - sum_raw, cat_total),
                 test_cases |-> [i \in DOMAIN cat_judgments |->
                                    cat_judgments[i].test_case_name]]]

\* category_analysis of analyze_judgments
category_analysis(judgments, test_cases) ==
    IF test_cases = << >> THEN << >>
    ELSE
    LET categories == {CategoryOf(test_cases, judgments[i].test_case_name) :
                          i \in DOMAIN judgments}
    IN  [category \in categories |->
            LET cat_judgments ==
                    SelectSeq(judgments, LAMBDA j :
                        CategoryOf(test_cases, j.test_case_name) = category)
                cat_total == Len(cat_judgments)
                sum_raw == SumSeq([i \in DOMAIN cat_judgments |->
                                      cat_judgments[i].raw_text_score])
                sum_vibexml == SumSeq([i \in DOMAIN cat_judgments |->
                                      cat_judgments[i].vibexml_score])
            IN  [total_tests |-> cat_total,
                 vibexml_wins |-> CountWinner(cat_judgments, "vibexml"),
                 raw_text_wins |-> CountWinner(cat_judgments, "raw_text"),
                 ties |-> CountWinner(cat_judgments, "tie"),
                 vibexml_win_rate |->
                     Quot(CountWinner(cat_judgments, "vibexml") * 100,
                          cat_total),
                 raw_text_win_rate |->
                     Quot(CountWinner(cat_judgments, "raw_text") * 100,
                          cat_total),
                 avg_raw_text_score |-> Quot(sum_raw, cat_total),
                 avg_vibexml_score |-> Quot(sum_vibexml, cat_total),
                 vibexml_advantage |-> Quot(sum_vibexml - sum_raw, cat_total),
                 test_cases |-> [i \in DOMAIN cat_judgments |->
                                    cat_judgments[i].test_case_name]]]

\* the tallies of analyze_judgments: its "summary" entry
summary_of(judgments) ==
    LET total_tests == Len(judgments)
        vibexml_wins == CountWinner(judgments, "vibexml")
        raw_text_wins == CountWinner(judgments, "raw_text")
    IN  [total_tests |-> total_tests,
         vibexml_wins |-> vibexml_wins,
         raw_text_wins |-> raw_text_wins,
         ties |-> CountWinner(judgments, "tie"),
         vibexml_win_rate |-> Quot(vibexml_wins * 100, total_tests),
         raw_text_win_rate |-> Quot(raw_text_wins * 100, total_tests)]

\* the means are taken over the decided results, ties left out
average_scores_over_decided(judgments) ==
    LET decided == Len(judgments) - CountWinner(judgments, "tie")
        sum_raw == SumSeq([i \in DOMAIN judgments |->
                              judgments[i].raw_text_score])
        sum_vibexml == SumSeq([i \in DOMAIN judgments |->
                              judgments[i].vibexml_score])
        sum_confidence == SumSeq([i \in DOMAIN judgments |->
                              judgments[i].confidence])
    IN  [raw_text |-> Quot(sum_raw, decided),
         vibexml |-> Quot(sum_vibexml, decided),
         vibexml_advantage |-> Quot(sum_vibexml - sum_raw, decided),
         average_confidence |-> Quot(sum_confidence, decided)]

\* the "average_scores" entry of analyze_judgments
average_scores(judgments) ==
    LET total_tests == Len(judgments)
        sum_raw == SumSeq([i \in DOMAIN judgments |->
                              judgments[i].raw_text_score])
        sum_vibexml == SumSeq([i \in DOMAIN judgments |->
                              judgments[i].vibexml_score])
        sum_confidence == SumSeq([i \in DOMAIN judgments |->
                              judgments[i].confidence])
    IN  [raw_text |-> Quot(sum_raw, total_tests),
         vibexml |-> Quot(sum_vibexml, total_tests),
         vibexml_advantage |-> Quot(sum_vibexml - sum_raw, total_tests),
         average_confidence |-> Quot(sum_confidence, total_tests)]

\* the dict analyze_judgments returns
analysis_of(judgments, test_cases) ==
    [summary |-> summary_of(judgments),
     average_scores |-> average_scores(judgments),
     criteria_analysis |-> criteria_analysis(judgments),
     category_analysis |-> category_analysis(judgments, test_cases),
     detailed_results |->
        [i \in DOMAIN judgments |->
            [test_case |-> judgments[i].test_case_name,
             winner |-> judgments[i].winner,
             confidence |-> judgments[i].confidence,
             score_difference |-> judgments[i].vibexml_score
                                  - judgments[i].raw_text_score,
             reasoning |-> judgments[i].reasoning]]]

\* an empty list is analysed as a run of no tests
analyze_judgments_zero_filled(judgments, test_cases) ==
    [raised |-> FALSE, value |-> analysis_of(judgments, test_cases)]

\* analyze_judgments: the analysis, or the ZeroDivisionError that the
\* division by total_tests raises on an empty list
analyze_judgments(judgments, test_cases) ==
    IF Len(judgments) = 0
    THEN [raised |-> TRUE, exc |-> "ZeroDivisionError"]
    ELSE [raised |-> FALSE, value |-> analysis_of(judgments, test_cases)]

(* ------------------------------------------- the statistical reporter *)
\* Floats of numpy.  A value is nan or an exact quotient with a positive
\* denominator; a value that comes out of a square root is kept as its sign
\* and its square.  The score lists hold whole and half points, whose sums
\* and squares are exact in double precision.
NaN == [nan |-> TRUE]
Num(n, d) == [nan |-> FALSE, num |-> n, den |-> d]
Sign(x) == IF x < 0 THEN 0 - 1 ELSE IF x = 0 THEN 0 ELSE 1
Rooted(sign, n, d) == [nan |-> FALSE, sign |-> sign, sq |-> Quot(n, d)]

\* np.mean(xs): nan for an empty list
np_mean(xs) == IF Len(xs) = 0 THEN NaN ELSE Num(SumSeq(xs), Len(xs))

\* len(xs) * (sum of the squared deviations from the mean)
SquaredDeviations(xs) ==
    Len(xs) * SumSeq([i \in DOMAIN xs |-> xs[i] * xs[i]])
        - SumSeq(xs) * SumSeq(xs)

\* np.std(xs, ddof=1) ** 2: nan with fewer than two values
np_var(xs) ==
    IF Len(xs) < 2 THEN NaN
    ELSE Num(SquaredDeviations(xs), Len(xs) * (Len(xs) - 1))

\* pooled_std ** 2 of calculate_effect_size: nan as soon as one std is nan
pooled_variance(group1, group2) ==
    LET n1 == Len(group1)
        n2 == Len(group2)
    IN  IF np_var(group1).nan \/ np_var(group2).nan THEN NaN
        ELSE Num(SquaredDeviations(group1) * n2
                     + SquaredDeviations(group2) * n1,
                 n1 * n2 * (n1 + n2 - 2))

\* mean2 - mean1
mean_difference(group1, group2) ==
    IF Len(group1) = 0 \/ Len(group2) = 0 THEN NaN
    ELSE Num(SumSeq(group2) * Len(group1) - SumSeq(group1) * Len(group2),
             Len(group1) * Len(group2))

\* every comparison with nan is false and the last branch is taken
interpret_effect_size(d) ==
    IF d.nan THEN "large"
    ELSE IF 25 * d.sq.num < d.sq.den THEN "negligible"
    ELSE IF 4 * d.sq.num < d.sq.den THEN "small"
    ELSE IF 25 * d.sq.num < 16 * d.sq.den THEN "medium"
    ELSE "large"

\* cohens_d of calculate_effect_size: 0.0 when pooled_std == 0, else
\* (mean2 - mean1) / pooled_std, which is nan when pooled_std is nan
cohens_d(group1, group2) ==
    LET pooled == pooled_variance(group1, group2)
        diff == mean_difference(group1, group2)
    IN  IF pooled.nan \/ diff.nan THEN NaN
        ELSE IF pooled.num = 0 THEN Rooted(0, 0, 1)
        ELSE Rooted(Sign(diff.num),
                    diff.num * diff.num * (Len(group1) + Len(group2) - 2),
                    Len(group1) * Len(group2) * pooled.num)

\* StatisticalAnalyzer.calculate_effect_size
calculate_effect_size(group1, group2) ==
    LET pooled == pooled_variance(group1, group2)
    IN  [cohens_d |-> cohens_d(group1, group2),
         effect_size_interpretation |->
             interpret_effect_size(cohens_d(group1, group2)),
         mean_difference |-> mean_difference(group1, group2),
         pooled_std |-> IF pooled.nan THEN NaN
                        ELSE Rooted(Sign(pooled.num), pooled.num, pooled.den)]

\* the lists are paired up to the shorter one
paired_t_test_truncating(scores_a, scores_b) ==
    LET n == Min(Len(scores_a), Len(scores_b))
        differences == [i \in 1..n |-> scores_b[i] - scores_a[i]]
    IN  [raised |-> FALSE,
         value |-> [degrees_freedom |-> n - 1,
                    mean_difference |-> np_mean(differences)]]

\* StatisticalAnalyzer.paired_t_test: the ValueError of unequal lengths, or
\* the degrees of freedom and the mean difference of the result (its
\* t statistic, p value and interval are scipy's)
paired_t_test(scores_a, scores_b) ==
    IF Len(scores_a) # Len(scores_b)
    THEN [raised |-> TRUE, exc |-> "ValueError"]
    ELSE LET differences == [i \in DOMAIN scores_a |->
                                scores_b[i] - scores_a[i]]
         IN  [raised |-> FALSE,
              value |-> [degrees_freedom |-> Len(differences) - 1,
                         mean_difference |-> np_mean(differences)]]

\* the binomial coefficient n over k
RECURSIVE Binomial(_, _)
Binomial(n, k) ==
    IF k = 0 THEN 1 ELSE (Binomial(n, k - 1) * (n - k + 1)) \div k

\* 2 ** n
RECURSIVE TwoTo(_)
TwoTo(n) == IF n = 0 THEN 1 ELSE 2 * TwoTo(n - 1)

\* alternative="greater": the probability of k wins or more
binomtest_pvalue_greater(k, n) ==
    Quot(SumSeq([i \in 1..(n + 1) |->
                    IF i - 1 >= k THEN Binomial(n, i - 1) ELSE 0]),
         TwoTo(n))

\* stats.binomtest(k, n, 0.5).pvalue, two-sided: the probability of the
\* outcomes that are no more likely than k
binomtest_pvalue(k, n) ==
    Quot(SumSeq([i \in 1..(n + 1) |->
                    IF Binomial(n, i - 1) <= Binomial(n, k)
                    THEN Binomial(n, i - 1) ELSE 0]),
         TwoTo(n))

\* categorical_outcomes of generate_statistical_summary
categorical_outcomes(judgments) ==
    LET vibexml_wins == CountWinner(judgments, "vibexml")
        raw_text_wins == CountWinner(judgments, "raw_text")
        ties == CountWinner(judgments, "tie")
        total_cases == Len(judgments)
    IN  [vibexml_wins |-> vibexml_wins,
         raw_text_wins |-> raw_text_wins,
         ties |-> ties,
         total_cases |-> total_cases,
         vibexml_win_rate |-> Quot(vibexml_wins, total_cases),
         raw_text_win_rate |-> Quot(raw_text_wins, total_cases),
         tie_rate |-> Quot(ties, total_cases),
         binomial_test |->
            [p_value |-> binomtest_pvalue(vibexml_wins, total_cases),
             statistically_significant |->
                 20 * binomtest_pvalue(vibexml_wins, total_cases).num
                     < binomtest_pvalue(vibexml_wins, total_cases).den]]

(* ----------------------------------------------------- MultiJudgeValidator *)
RECURSIVE Gcd(_, _)
Gcd(a, b) == IF b = 0 THEN a ELSE Gcd(b, a % b)

\* the float n / d, d > 0, in lowest terms
Reduced(n, d) == Num(n \div Gcd(Abs(n), d), d \div Gcd(Abs(n), d))

\* the square root of n, a whole number for the numerator and the
\* denominator of the squared correlation of the score columns drawn here
RECURSIVE RootFrom(_, _)
RootFrom(n, r) == IF r * r >= n THEN r ELSE RootFrom(n, r + 1)

\* len(x) * len(x) * (the covariance of x and y)
Codeviations(x, y) ==
    Len(x) * SumSeq([i \in DOMAIN x |-> x[i] * y[i]]) - SumSeq(x) * SumSeq(y)

\* stats.pearsonr(x, y)[0]: ValueError for fewer than two values, nan (with
\* a warning) when x or y is constant
pearsonr(x, y) ==
    IF Len(x) < 2 THEN [raised |-> TRUE, exc |-> "ValueError"]
    ELSE [raised |-> FALSE,
          value |->
            IF SquaredDeviations(x) = 0 \/ SquaredDeviations(y) = 0 THEN NaN
            ELSE LET squared ==
                         Reduced(Codeviations(x, y) * Codeviations(x, y),
                                 SquaredDeviations(x) * SquaredDeviations(y))
                 IN  Num(Sign(Codeviations(x, y)) * RootFrom(squared.num, 0),
                         RootFrom(squared.den, 0))]

\* np.mean of a non-empty list of correlations
RECURSIVE SumCorrelations(_)
SumCorrelations(cs) ==
    IF cs = << >> THEN Num(0, 1)
    ELSE LET rest == SumCorrelations(Tail(cs))
         IN  Reduced(Head(cs).num * rest.den + rest.num * Head(cs).den,
                     Head(cs).den * rest.den)

mean_correlation(cs) ==
    Reduced(SumCorrelations(cs).num, SumCorrelations(cs).den * Len(cs))

\* MultiJudgeValidator._interpret_reliability(correlation)
interpret_reliability(correlation) ==
    IF 10 * correlation.num >= 9 * correlation.den THEN "excellent"
    ELSE IF 10 * correlation.num >= 8 * correlation.den THEN "good"
    ELSE IF 10 * correlation.num >= 7 * correlation.den THEN "acceptable"
    ELSE IF 10 * correlation.num >= 6 * correlation.den THEN "questionable"
    ELSE "poor"

\* the pairs (i, j) of range(n_judges) with i < j, in the order of the loops
JudgePairs(n_judges) ==
    SelectSeq([k \in 1..(n_judges * n_judges) |->
                  <<((k - 1) \div n_judges) + 1, ((k - 1) % n_judges) + 1>>],
              LAMBDA pair : pair[1] < pair[2])

\* MultiJudgeValidator.calculate_inter_rater_reliability(judgments_matrix);
\* the matrix is its number of rows and its columns, one per judge
calculate_inter_rater_reliability(judgments_matrix) ==
    LET n_judges == Len(judgments_matrix.columns)
        pairs == JudgePairs(n_judges)
        corrs == [k \in DOMAIN pairs |->
                     pearsonr(judgments_matrix.columns[pairs[k][1]],
                              judgments_matrix.columns[pairs[k][2]])]
        correlations ==
            [k \in DOMAIN SelectSeq(corrs, LAMBDA c : ~c.value.nan) |->
                SelectSeq(corrs, LAMBDA c : ~c.value.nan)[k].value]
        avg_correlation ==
            IF correlations # << >> THEN mean_correlation(correlations)
            ELSE Num(0, 1)
    IN  IF \E k \in DOMAIN corrs : corrs[k].raised
        THEN [raised |-> TRUE, exc |-> "ValueError"]
        ELSE [raised |-> FALSE,
              value |->
                [average_pairwise_correlation |-> avg_correlation,
                 reliability_interpretation |->
                     interpret_reliability(avg_correlation),
                 individual_correlations |-> correlations,
                 n_judges |-> n_judges,
                 n_cases |-> judgments_matrix.n_cases]]

(* ----------------------------------------- StatisticalAnalysisReporter *)
\* what scipy's t distribution does when the power is computed
PowerOutcomes == {"returns", "raises"}

\* the try block is left out: what the computation raises leaves the function
calculate_power_analysis_unguarded(sample_size, effect_size, t_distribution) ==
    IF t_distribution = "raises" \/ sample_size < 0
    THEN [raised |-> TRUE, exc |-> "Exception"]
    ELSE [raised |-> FALSE,
          value |-> [observed_power |->
                         [power_of |-> <<sample_size, effect_size>>],
                     effect_size_used |-> effect_size,
                     alpha_level |-> "0.05",
                     sample_size |-> sample_size,
                     critical_t_value |-> [t_ppf |-> sample_size - 1],
                     non_centrality_parameter |->
                         [ncp_of |-> <<effect_size, sample_size>>]]]

\* _calculate_power_analysis: the power, the critical t value and the
\* non-centrality parameter are kept as the expressions they are computed
\* from; when the t distribution raises, or math.sqrt does for a negative
\* sample size, the except branch reports the power as unavailable
calculate_power_analysis(sample_size, effect_size, t_distribution) ==
    IF t_distribution = "raises" \/ sample_size < 0
    THEN [raised |-> FALSE,
          value |-> [observed_power |-> None,
                     effect_size_used |-> effect_size,
                     alpha_level |-> "0.05",
                     sample_size |-> sample_size,
                     note |-> "Power calculation unavailable"]]
    ELSE [raised |-> FALSE,
          value |-> [observed_power |->
                         [power_of |-> <<sample_size, effect_size>>],
                     effect_size_used |-> effect_size,
                     alpha_level |-> "0.05",
                     sample_size |-> sample_size,
                     critical_t_value |-> [t_ppf |-> sample_size - 1],
                     non_centrality_parameter |->
                         [ncp_of |-> <<effect_size, sample_size>>]]]

\* generate_statistical_summary: the study design, the inferential
\* statistics and the categorical outcomes of the report (its descriptive
\* statistics are not kept), or the exception that leaves it
generate_statistical_summary(results, t_distribution) ==
    LET judgments == results.judgments
        raw_scores == [i \in DOMAIN judgments |-> judgments[i].raw_text_score]
        vibexml_scores ==
            [i \in DOMAIN judgments |-> judgments[i].vibexml_score]
        effect_size == calculate_effect_size(raw_scores, vibexml_scores)
        significance == paired_t_test(raw_scores, vibexml_scores)
        total_cases == Len(judgments)
        power_analysis ==
            calculate_power_analysis(total_cases, effect_size.cohens_d,
                                     t_distribution)
    IN  IF significance.raised THEN significance
        ELSE IF power_analysis.raised THEN power_analysis
        ELSE IF total_cases = 0
        THEN [raised |-> TRUE, exc |-> "ZeroDivisionError"]
        ELSE [raised |-> FALSE,
              value |->
                [study_design |->
                    [sample_size |-> total_cases,
                     evaluation_criteria |-> Cardinality(Criteria),
                     random_seed_used |-> TRUE,
                     blind_evaluation |-> TRUE],
                 inferential_statistics |->
                    [paired_t_test |-> significance.value,
                     effect_size |-> effect_size,
                     power_analysis |-> power_analysis.value],
                 categorical_outcomes |-> categorical_outcomes(judgments)]]

(* --------------------------------------------------------- the evaluator *)
\* LLMLEvaluator.print_summary(results): the final verdict it prints, with
\* the win count and the total of the printed line
print_summary(results) ==
    LET analysis == results.analysis
        vibexml_wins == analysis.summary.vibexml_wins
        total_tests == analysis.summary.total_tests
    IN  IF 2 * vibexml_wins > total_tests
        THEN [verdict |-> "VibeXML (structured) wins!",
              wins |-> vibexml_wins, total |-> total_tests,
              advantage |-> analysis.average_scores.vibexml_advantage]
        ELSE IF 2 * vibexml_wins < total_tests
        THEN [verdict |-> "Raw text (unstructured) wins!",
              wins |-> analysis.summary.raw_text_wins, total |-> total_tests]
        ELSE [verdict |-> "Tie! wins each",
              wins |-> vibexml_wins, total |-> total_tests]

\* serializable_data of save_results
save_results(results) ==
    [metadata |-> [test_type |-> "llml_structured_vs_unstructured",
                   framework_version |-> "1.0.0",
                   test_cases_evaluated |->
                       results.metadata.test_cases_evaluated],
     ab_test_results |->
        [i \in DOMAIN results.ab_results |->
            [test_case_name |-> results.ab_results[i].test_case_name,
             raw_text_response |-> results.ab_results[i].raw_text_response,
             vibexml_response |-> results.ab_results[i].vibexml_response]],
     judgments |->
        [i \in DOMAIN results.judgments |->
            [test_case_name |-> results.judgments[i].test_case_name,
             winner |-> results.judgments[i].winner,
             confidence |-> results.judgments[i].confidence,
             raw_text_score |-> results.judgments[i].raw_text_score,
             vibexml_score |-> results.judgments[i].vibexml_score,
             reasoning |-> results.judgments[i].reasoning,
             criteria_scores |-> results.judgments[i].criteria_scores]],
     analysis |-> results.analysis]

(* ------------------------------------------------------- oracle inputs *)
IndexOf(c) == CHOOSE i \in DOMAIN CriteriaOrder : CriteriaOrder[i] = c

\* criterion scores: all lowest, all highest, and one value per criterion
ProfileLow == [c \in Criteria |-> MinScore]
ProfileHigh == [c \in Criteria |-> MaxScore]
ProfileRamp == [c \in Criteria |-> MinScore + 7 * IndexOf(c)]

OracleReasoning ==
    "The stronger answer cites the thresholds and dependencies in order."

Verdict(w, sa, sb, oa, ob, conf) ==
    [winner |-> w, response_a_scores |-> sa, response_b_scores |-> sb,
     response_a_overall |-> oa, response_b_overall |-> ob,
     confidence |-> conf, reasoning |-> OracleReasoning,
     main_advantages |-> << >>]

\* the verdicts of a single judged call
RichVerdicts ==
    {Verdict(w, sa, sb, oa, ob, conf) :
        w \in Winners,
        sa \in {ProfileLow, ProfileRamp, ProfileHigh},
        sb \in {ProfileLow, ProfileRamp, ProfileHigh},
        oa \in {MinScore, MaxScore}, ob \in {MinScore, MaxScore},
        conf \in {MinConfidence, MaxConfidence}}

\* the verdicts of a run over several scenarios
RunVerdicts ==
    {Verdict(w, ProfileLow, ProfileRamp, MinScore, MaxScore, MaxConfidence) :
        w \in {"A", "TIE"}}

Ok(v) == [kind |-> "ok", data |-> v]
Failed(k) == [kind |-> k]

RichAgents == {Ok(v) : v \in RichVerdicts} \cup {Failed(k) : k \in FailureKinds}
RunAgents == {Ok(v) : v \in RunVerdicts} \cup {Failed(k) : k \in {"schema", "timeout"}}
PairAgents == {Ok(Verdict("A", ProfileLow, ProfileRamp, MinScore, MaxScore, MaxConfidence)), Failed("timeout")}

\* the responder's answers: (raw_text_response, vibexml_response)
RichPairs == {<<Words(a), Words(b)>> : a \in {0, 2, 14}, b \in {0, 2, 14}}
RunPairs == {<<Words(14), Words(2)>>, <<Words(14), Words(14)>>}
PairPairs == {<<Words(2), Words(14)>>}

Seeds == {None} \cup {<<s>> : s \in 0..MaxSeed}

(* ----------------------------------------------------------------- state *)
VARIABLES
    rng,        \* the state of the process-wide generator of module random
    pc,         \* per pipeline: "new", "idle", "awaiting", "done", "saved", "raised"
    seed,       \* per pipeline: the random_seed it was constructed with
    tests,      \* per pipeline: the test_cases handed to run_evaluation
    ab,         \* per pipeline: ab_results of run_all_tests
    inflight,   \* per pipeline: the prompt and assignment of the pending oracle call
    judgments,  \* per pipeline: the judgments list of run_evaluation
    draws,      \* per pipeline: the raw_text_is_a values drawn so far
    calls,      \* per pipeline: what each oracle call was given and answered
    results,    \* per pipeline: the dict run_evaluation returned
    academic,   \* per pipeline: the statistical summary, once generated
    saved,      \* per pipeline: the data save_results wrote
    error,      \* per pipeline: the exception that left run_evaluation
    direct      \* a direct call of a library function: its arguments and outcome

vars == <<rng, pc, seed, tests, ab, inflight, judgments, draws, calls,
          results, academic, saved, error, direct>>

Init ==
    /\ rng \in 0..(RngMod - 1)
    /\ pc = [i \in Instances |-> "new"]
    /\ seed = [i \in Instances |-> None]
    /\ tests = [i \in Instances |-> << >>]
    /\ ab = [i \in Instances |-> << >>]
    /\ inflight = [i \in Instances |-> None]
    /\ judgments = [i \in Instances |-> << >>]
    /\ draws = [i \in Instances |-> << >>]
    /\ calls = [i \in Instances |-> << >>]
    /\ results = [i \in Instances |-> None]
    /\ academic = [i \in Instances |-> None]
    /\ saved = [i \in Instances |-> None]
    /\ error = [i \in Instances |-> None]
    /\ direct = [fn |-> "none"]

\* a truthiness test of the seed: seed 0 is taken for no seed
SeedOnInitTruthy(state, random_seed) ==
    IF random_seed # None /\ random_seed[1] # 0
    THEN SeedState(random_seed[1]) ELSE state

\* LLMJudge.__init__: a seed that is not None re-seeds the process generator
SeedOnInit(state, random_seed) ==
    IF random_seed # None THEN SeedState(random_seed[1]) ELSE state

\* LLMLEvaluator.__init__, which constructs the LLMJudge
Construct(i, random_seed) ==
    /\ pc[i] = "new"
    /\ pc' = [pc EXCEPT ![i] = "idle"]
    /\ seed' = [seed EXCEPT ![i] = random_seed]
    /\ rng' = SeedOnInit(rng, random_seed)
    /\ UNCHANGED <<tests, ab, inflight, judgments, draws, calls, results,
                   academic, saved, error, direct>>

\* next(tc for tc in test_cases if tc.name == name)
FirstNamed(test_cases, name) ==
    test_cases[CHOOSE i \in DOMAIN test_cases :
                  /\ test_cases[i].name = name
                  /\ \A j \in 1..(i - 1) : test_cases[j].name # name]

\* two identical responses are not shuffled: the order is left as given
RequestUnshuffledWhenEqual(state, test_cases, ab_result) ==
    LET test_case == FirstNamed(test_cases, ab_result.test_case_name)
    IN  create_judgment_prompt(ab_result.test_case_name, test_case.task,
                               test_case.expected_advantages,
                               ab_result.raw_text_response,
                               ab_result.vibexml_response,
                               IF ab_result.raw_text_response
                                      = ab_result.vibexml_response
                               THEN TRUE ELSE Choice(state))

\* judge_responses up to its await: the assignment is drawn from the process
\* generator and the prompt is built
Request(state, test_cases, ab_result) ==
    LET test_case == FirstNamed(test_cases, ab_result.test_case_name)
    IN  create_judgment_prompt(ab_result.test_case_name, test_case.task,
                               test_case.expected_advantages,
                               ab_result.raw_text_response,
                               ab_result.vibexml_response, Choice(state))

\* the end of run_evaluation: the analysis and the dict returned
Finish(i, js) ==
    LET analysis == analyze_judgments(js, tests[i])
    IN  IF analysis.raised
        THEN /\ pc' = [pc EXCEPT ![i] = "raised"]
             /\ error' = [error EXCEPT ![i] = analysis.exc]
             /\ UNCHANGED results
        ELSE /\ pc' = [pc EXCEPT ![i] = "done"]
             /\ results' = [results EXCEPT ![i] =
                    [ab_results |-> ab[i], judgments |-> js,
                     analysis |-> analysis.value,
                     metadata |-> [test_cases_evaluated |->
                        [k \in DOMAIN tests[i] |-> tests[i][k].name]]]]
             /\ UNCHANGED error

\* run_evaluation up to the first oracle call: run_all_tests collects the two
\* responses of every test case, then the loop draws its first assignment;
\* with no test case the analysis follows at once
RunAllTests(i, lengths, pairs) ==
    /\ pc[i] = "idle"
    /\ \E n \in lengths : \E answers \in [1..n -> pairs] :
        LET test_cases == SubSeq(AllCases, 1, n)
            ab_results == [k \in 1..n |->
                [test_case_name |-> test_cases[k].name,
                 raw_text_response |-> answers[k][1],
                 vibexml_response |-> answers[k][2]]]
        IN  /\ tests' = [tests EXCEPT ![i] = test_cases]
            /\ ab' = [ab EXCEPT ![i] = ab_results]
            /\ judgments' = [judgments EXCEPT ![i] = << >>]
            /\ IF n = 0
               THEN /\ pc' = [pc EXCEPT ![i] = "raised"]
                    /\ error' = [error EXCEPT ![i] =
                          analyze_judgments(<< >>, test_cases).exc]
                    /\ UNCHANGED <<rng, inflight, draws, results>>
               ELSE /\ inflight' = [inflight EXCEPT ![i] =
                          Request(rng, test_cases, ab_results[1])]
                    /\ draws' = [draws EXCEPT ![i] = Append(@, Choice(rng))]
                    /\ rng' = Advance(rng)
                    /\ pc' = [pc EXCEPT ![i] = "awaiting"]
                    /\ UNCHANGED <<results, error>>
    /\ UNCHANGED <<seed, calls, academic, saved, direct>>

\* run_all_tests when generate_response raises: run_evaluation propagates it
RunAllTestsFails(i) ==
    /\ pc[i] = "idle"
    /\ pc' = [pc EXCEPT ![i] = "raised"]
    /\ error' = [error EXCEPT ![i] = "Response generation failed"]
    /\ UNCHANGED <<rng, seed, tests, ab, inflight, judgments, draws, calls,
                   results, academic, saved, direct>>

\* only structured judgments are appended
append_judgment_structured_only(js, judgment) ==
    IF DOMAIN judgment.criteria_scores = {"fallback"} THEN js
    ELSE Append(js, judgment)

\* judgments.append(judgment) of run_evaluation
append_judgment(js, judgment) == Append(js, judgment)

\* the oracle call of judge_responses ends: the judgment is appended; the
\* loop goes on to the next draw, or run_evaluation analyses and returns
JudgeReturn(i, agents) ==
    /\ pc[i] = "awaiting"
    /\ \E agent \in agents :
        LET k == Len(calls[i]) + 1
            ab_result == ab[i][k]
            reply == generate_structured_response(agent)
            out == judge_responses(ab_result.test_case_name,
                                   ab_result.raw_text_response,
                                   ab_result.vibexml_response,
                                   inflight[i].raw_text_is_a, reply)
        IN  /\ calls' = [calls EXCEPT ![i] = Append(@,
                    [kind |-> agent.kind,
                     data |-> IF agent.kind = "ok" THEN agent.data ELSE None,
                     raw_text_is_a |-> inflight[i].raw_text_is_a])]
            /\ IF out.raised
               THEN /\ pc' = [pc EXCEPT ![i] = "raised"]
                    /\ error' = [error EXCEPT ![i] = out.exc]
                    /\ inflight' = [inflight EXCEPT ![i] = None]
                    /\ UNCHANGED <<rng, judgments, draws, results>>
               ELSE LET js == append_judgment(judgments[i], out.value)
                    IN  /\ judgments' = [judgments EXCEPT ![i] = js]
                        /\ IF k < Len(ab[i])
                           THEN /\ inflight' = [inflight EXCEPT ![i] =
                                      Request(rng, tests[i], ab[i][k + 1])]
                                /\ draws' = [draws EXCEPT ![i] =
                                      Append(@, Choice(rng))]
                                /\ rng' = Advance(rng)
                                /\ UNCHANGED <<pc, results, error>>
                           ELSE /\ inflight' = [inflight EXCEPT ![i] = None]
                                /\ Finish(i, js)
                                /\ UNCHANGED <<rng, draws>>
    /\ UNCHANGED <<seed, tests, ab, academic, saved, direct>>

\* the reporter takes the judgments off the list as it reads their scores
AcademicDraining(i) ==
    /\ pc[i] = "done"
    /\ academic[i] = None
    /\ \E t_distribution \in PowerOutcomes :
        LET summary == generate_statistical_summary(results[i], t_distribution)
        IN  academic' = [academic EXCEPT ![i] =
                            IF summary.raised THEN @ ELSE summary.value]
    /\ results' = [results EXCEPT ![i].judgments = << >>]
    /\ UNCHANGED <<rng, pc, seed, tests, ab, inflight, judgments, draws,
                   calls, saved, error, direct>>

\* main with --academic: the statistical summary of the returned results;
\* when it raises, main reports it and goes on with the regular results
Academic(i) ==
    /\ pc[i] = "done"
    /\ academic[i] = None
    /\ \E t_distribution \in PowerOutcomes :
        LET summary == generate_statistical_summary(results[i], t_distribution)
        IN  academic' = [academic EXCEPT ![i] =
                            IF summary.raised THEN @ ELSE summary.value]
    /\ UNCHANGED <<rng, pc, seed, tests, ab, inflight, judgments, draws,
                   calls, results, saved, error, direct>>

\* LLMLEvaluator.save_results
SaveResults(i) ==
    /\ pc[i] = "done"
    /\ saved' = [saved EXCEPT ![i] = save_results(results[i])]
    /\ pc' = [pc EXCEPT ![i] = "saved"]
    /\ UNCHANGED <<rng, seed, tests, ab, inflight, judgments, draws, calls,
                   results, academic, error, direct>>

(* ---------------------------------------------------------- direct calls *)
\* what the pipeline holds; a direct call of a static function leaves it alone
pipeline_vars == <<rng, pc, seed, tests, ab, inflight, judgments, draws,
                   calls, results, academic, saved, error>>

\* judgments as judge_responses returns them: the four results of a run
\* with three vibexml wins and one tie, and one fallback judgment
JudgmentPool ==
    { judge_responses("nested_conditional_logic", Words(2), Words(14), TRUE,
          generate_structured_response(Ok(Verdict("B", ProfileLow,
              ProfileRamp, 70, 85, MaxConfidence)))).value,
      judge_responses("basic_factual_question", Words(2), Words(14), FALSE,
          generate_structured_response(Ok(Verdict("A", ProfileHigh,
              ProfileRamp, 88, 72, MinConfidence)))).value,
      judge_responses("workflow_dependencies", Words(2), Words(14), TRUE,
          generate_structured_response(Ok(Verdict("B", ProfileRamp,
              ProfileHigh, 75, 90, MaxConfidence)))).value,
      judge_responses("creative_story_writing", Words(2), Words(14), TRUE,
          generate_structured_response(Ok(Verdict("TIE", ProfileRamp,
              ProfileRamp, 80, 80, MinConfidence)))).value,
      judge_responses("basic_factual_question", Words(14), Words(2), TRUE,
          generate_structured_response(Failed("parse"))).value }

JudgmentLists == UNION {[1..n -> JudgmentPool] : n \in 0..MaxJudgments}

\* test_cases of analyze_judgments: None, the dataset, or its first two cases
CaseLists == {None, AllCases, SubSeq(AllCases, 1, 2)}

\* texts around the tie margin and the cap, and one with irregular blanks
FallbackTexts ==
    {Words(n) : n \in {0, 9, 10, 11, 20, 190, 191, 200, 250}}
    \cup {<<" ", " ">> \o Words(2) \o <<" ", " ", "w", "w", " ">>}

\* score lists in half points: 80 and 85
StatScores == {Half(80), Half(85)}
ScoreLists == UNION {[1..n -> StatScores] : n \in 0..MaxSample}

\* JudgmentAnalyzer.analyze_judgments(judgments, test_cases)
AnalyzeJudgments ==
    /\ direct.fn = "none"
    /\ \E js \in JudgmentLists : \E tcs \in CaseLists :
        direct' = [fn |-> "analyze_judgments", judgments |-> js,
                   test_cases |-> tcs, out |-> analyze_judgments(js, tcs)]
    /\ UNCHANGED pipeline_vars

\* LLMJudge._fallback_judgment(test_case_name, raw_text_response, vibexml_response)
FallbackJudgment ==
    /\ direct.fn = "none"
    /\ \E raw \in FallbackTexts : \E vib \in FallbackTexts :
        direct' = [fn |-> "_fallback_judgment",
                   test_case_name |-> AllCases[1].name,
                   raw_text_response |-> raw, vibexml_response |-> vib,
                   out |-> fallback_judgment(AllCases[1].name, raw, vib)]
    /\ UNCHANGED pipeline_vars

\* StatisticalAnalyzer.calculate_effect_size(group1, group2)
CalculateEffectSize ==
    /\ direct.fn = "none"
    /\ \E g1 \in ScoreLists : \E g2 \in ScoreLists :
        direct' = [fn |-> "calculate_effect_size", group1 |-> g1,
                   group2 |-> g2, out |-> calculate_effect_size(g1, g2)]
    /\ UNCHANGED pipeline_vars

\* StatisticalAnalyzer.paired_t_test(scores_a, scores_b)
PairedTTest ==
    /\ direct.fn = "none"
    /\ \E a \in ScoreLists : \E b \in ScoreLists :
        direct' = [fn |-> "paired_t_test", scores_a |-> a, scores_b |-> b,
                   out |-> paired_t_test(a, b)]
    /\ UNCHANGED pipeline_vars

\* a vibexml win, a raw_text win and a tie as judge_responses returns them
TalliedJudgment(winner) ==
    judge_responses("nested_conditional_logic", Words(2), Words(14), TRUE,
        generate_structured_response(Ok(
            IF winner = "vibexml"
            THEN Verdict("B", ProfileLow, ProfileRamp, 80, 85, MaxConfidence)
            ELSE IF winner = "raw_text"
            THEN Verdict("A", ProfileRamp, ProfileLow, 85, 80, MaxConfidence)
            ELSE Verdict("TIE", ProfileRamp, ProfileRamp, 80, 80,
                         MinConfidence)))).value

\* the judgments of a run with v vibexml wins, r raw_text wins and t ties
Tallied(v, r, t) ==
    [k \in 1..(v + r + t) |->
        TalliedJudgment(IF k <= v THEN "vibexml"
                        ELSE IF k <= v + r THEN "raw_text" ELSE "tie")]

TalliedLists ==
    {Tallied(v, r, n - v - r) :
        <<n, v, r>> \in {x \in (1..MaxComparisons) \X (0..MaxComparisons)
                                 \X (0..MaxComparisons) : x[2] + x[3] <= x[1]}}

\* StatisticalAnalysisReporter(results).generate_statistical_summary()
GenerateStatisticalSummary ==
    /\ direct.fn = "none"
    /\ \E js \in TalliedLists : \E t_distribution \in PowerOutcomes :
        direct' = [fn |-> "generate_statistical_summary",
                   results |-> [judgments |-> js],
                   t_distribution |-> t_distribution,
                   out |-> generate_statistical_summary([judgments |-> js],
                                                        t_distribution)]
    /\ UNCHANGED pipeline_vars

\* evaluator.print_summary(results), on the results of a finished run
PrintSummary ==
    /\ direct.fn = "none"
    /\ \E js \in TalliedLists :
        LET run == [judgments |-> js,
                    analysis |-> analyze_judgments(js, None).value]
        IN  direct' = [fn |-> "print_summary", results |-> run,
                       out |-> print_summary(run)]
    /\ UNCHANGED pipeline_vars

\* the (n_cases, n_judges) matrices of numeric scores
JudgmentMatrices ==
    UNION {[n_cases : {n}, columns : [1..m -> [1..n -> StatScores]]] :
              <<n, m>> \in (1..MaxRated) \X (0..MaxJudges)}

\* MultiJudgeValidator.calculate_inter_rater_reliability(judgments_matrix)
CalculateInterRaterReliability ==
    /\ direct.fn = "none"
    /\ \E judgments_matrix \in JudgmentMatrices :
        direct' = [fn |-> "calculate_inter_rater_reliability",
                   judgments_matrix |-> judgments_matrix,
                   out |-> calculate_inter_rater_reliability(judgments_matrix)]
    /\ UNCHANGED pipeline_vars

(* -------------------------------------------------------- specifications *)
\* one pipeline, run over up to MaxCases scenarios
Next ==
    \/ \E s \in Seeds : Construct(1, s)
    \/ RunAllTests(1, 0..MaxCases, RunPairs)
    \/ RunAllTestsFails(1)
    \/ JudgeReturn(1, RunAgents)
    \/ Academic(1)
    \/ SaveResults(1)

Spec == Init /\ [][Next]_vars

\* one pipeline judging one scenario, over every verdict and every failure
NextJudge ==
    \/ \E s \in Seeds : Construct(1, s)
    \/ RunAllTests(1, {1}, RichPairs)
    \/ JudgeReturn(1, RichAgents)
    \/ SaveResults(1)

SpecJudge == Init /\ [][NextJudge]_vars

\* two pipelines in one process, their oracle calls interleaved
NextTwo ==
    \E i \in Instances :
        \/ \E s \in Seeds : Construct(i, s)
        \/ RunAllTests(i, 1..MaxCases, PairPairs)
        \/ JudgeReturn(i, PairAgents)

SpecTwo == Init /\ [][NextTwo]_vars

\* two pipelines run one after the other: the second is constructed once the
\* first has returned
Sequential(i) == i = 1 \/ pc[1] \in {"done", "saved", "raised"}

NextSeq ==
    \E i \in Instances :
        \/ \E s \in Seeds : Sequential(i) /\ Construct(i, s)
        \/ RunAllTests(i, 1..MaxCases, PairPairs)
        \/ JudgeReturn(i, PairAgents)

SpecSeq == Init /\ [][NextSeq]_vars

\* direct calls of the analyzer, the fallback and the statistical analyzer
InitDirect == Init /\ rng = 0

NextDirect ==
    \/ AnalyzeJudgments
    \/ FallbackJudgment
    \/ CalculateEffectSize
    \/ PairedTTest

SpecDirect == InitDirect /\ [][NextDirect]_vars

\* direct calls of the reporter, the validator and the printed summary
NextReport ==
    \/ GenerateStatisticalSummary
    \/ CalculateInterRaterReliability
    \/ PrintSummary

SpecReport == InitDirect /\ [][NextReport]_vars

(* ---------------------------------------------------------------- claims *)
SemanticWinners == {"raw_text", "vibexml", "tie"}

JudgmentFields ==
    {"test_case_name", "winner", "confidence", "raw_text_score",
     "vibexml_score", "reasoning", "criteria_scores"}

\* the oracle calls of pipeline i that were answered and judged
Judged(i) == DOMAIN calls[i] \cap DOMAIN judgments[i]

\* C1: judge_responses yields a JudgmentResult for every outcome of the
\* oracle call, a valid judgment or any failure, and never raises: every
\* answered call left a JudgmentResult and no pipeline ended in an exception.
C1_AlwaysYieldsJudgment ==
    \A i \in Instances :
        /\ pc[i] # "raised"
        /\ Len(judgments[i]) = Len(calls[i])
        /\ \A k \in Judged(i) :
              /\ DOMAIN judgments[i][k] = JudgmentFields
              /\ judgments[i][k].winner \in SemanticWinners
              /\ judgments[i][k].test_case_name = ab[i][k].test_case_name

C1_Witness ==
    /\ Len(calls[1]) = 1
    /\ calls[1][1].kind = "oracle_error"
    /\ Len(judgments[1]) = 1

\* C2: the fallback is entered exactly when the structured attempt fails;
\* every kind of failure gives, for the same two responses, the same result;
\* a successful attempt gives a result that is the same whatever the two
\* responses are.
C2_FallbackIffFailure ==
    \A i \in Instances : \A k \in Judged(i) :
        LET call == calls[i][k]
            name == ab[i][k].test_case_name
            raw == ab[i][k].raw_text_response
            vib == ab[i][k].vibexml_response
            jr == judgments[i][k]
        IN  /\ (DOMAIN jr.criteria_scores = {"fallback"}) <=> (call.kind # "ok")
            /\ call.kind # "ok" =>
                 \A kind \in FailureKinds :
                    judge_responses(name, raw, vib, call.raw_text_is_a,
                        generate_structured_response(Failed(kind)))
                    = [raised |-> FALSE, value |-> jr]
            /\ call.kind = "ok" =>
                 \A pair \in RichPairs :
                    judge_responses(name, pair[1], pair[2], call.raw_text_is_a,
                        generate_structured_response(Ok(call.data)))
                    = [raised |-> FALSE, value |-> jr]

C2_Witness ==
    /\ Len(judgments[1]) = 1
    /\ calls[1][1].kind = "schema"
    /\ judgments[1][1].winner = "vibexml"
    /\ DOMAIN judgments[1][1].criteria_scores = {"fallback"}

\* C3: de-randomisation uses one of two tables chosen by raw_text_is_a: with
\* raw_text shown as Response A, winner A is raw_text, B is vibexml, TIE is
\* tie, and raw_text takes the overall and criterion scores of side A, vibexml
\* those of side B; otherwise the winner and all scores are mirrored.
C3_Table(a, w) ==
    IF w = "TIE" THEN "tie"
    ELSE IF (w = "A") = a THEN "raw_text" ELSE "vibexml"

ReRandomise(a, w) ==
    IF w = "tie" THEN "TIE"
    ELSE IF (w = "raw_text") = a THEN "A" ELSE "B"

C4_RoundTrip ==
    /\ \A i \in Instances : \A k \in Judged(i) :
          calls[i][k].kind = "ok" =>
             ReRandomise(calls[i][k].raw_text_is_a, judgments[i][k].winner)
             = calls[i][k].data.winner
    /\ \A i \in Instances :
          inflight[i] # None =>
             LET m == winner_map(inflight[i].raw_text_is_a)
             IN  /\ DOMAIN m = Winners
                 /\ {m[w] : w \in Winners} = SemanticWinners
                 /\ \A w1, w2 \in Winners : m[w1] = m[w2] => w1 = w2

C4_Witness ==
    /\ Len(judgments[1]) = 1
    /\ calls[1][1].kind = "ok"
    /\ ~calls[1][1].raw_text_is_a
    /\ calls[1][1].data.winner = "B"
    /\ judgments[1][1].winner = "raw_text"

\* C5: after de-randomisation nothing downstream carries the A/B labels or
\* the assignment: the JudgmentResult, the analysis and the saved data have
\* no raw_text_is_a field and name winners only as raw_text, vibexml or tie,
\* and the call with the opposite assignment and the oracle's verdict
\* mirrored gives the same JudgmentResult.
Mirror(v) ==
    [v EXCEPT !.winner = IF v.winner = "A" THEN "B"
                         ELSE IF v.winner = "B" THEN "A" ELSE "TIE",
              !.response_a_scores = v.response_b_scores,
              !.response_b_scores = v.response_a_scores,
              !.response_a_overall = v.response_b_overall,
              !.response_b_overall = v.response_a_overall]

MirrorAgent(call) ==
    IF call.kind = "ok" THEN Ok(Mirror(call.data)) ELSE Failed(call.kind)

LabelFree(r) ==
    /\ "raw_text_is_a" \notin DOMAIN r
    /\ r.winner \in SemanticWinners
    /\ r.winner \notin Winners

C6_PromptOf(i, k, a) ==
    LET tc == FirstNamed(tests[i], ab[i][k].test_case_name)
    IN  [built |-> create_judgment_prompt(tc.name, tc.task,
                      tc.expected_advantages, ab[i][k].raw_text_response,
                      ab[i][k].vibexml_response, a).prompt,
         exchanged |-> create_judgment_prompt(tc.name, tc.task,
                      tc.expected_advantages, ab[i][k].vibexml_response,
                      ab[i][k].raw_text_response, ~a).prompt,
         parts |-> << tc.name, tc.task, tc.expected_advantages,
                      IF a THEN ab[i][k].raw_text_response
                      ELSE ab[i][k].vibexml_response,
                      IF a THEN ab[i][k].vibexml_response
                      ELSE ab[i][k].raw_text_response >>]

C6_Blind(prompt, of) ==
    /\ prompt = of.built
    /\ prompt = of.exchanged
    /\ <<prompt[2], prompt[4], prompt[6], prompt[8], prompt[10]>> = of.parts
    /\ prompt[7] = "Response A"
    /\ prompt[9] = "Response B"

\* C6, on every pending oracle call: the prompt sent hides the format behind
\* each label (every prompt sent is the prompt of a pending call).
C6_PromptHidesFormat ==
    \A i \in Instances :
        inflight[i] # None =>
              C6_Blind(inflight[i].prompt,
                       C6_PromptOf(i, Len(calls[i]) + 1,
                                   inflight[i].raw_text_is_a))

C6_Witness ==
    /\ inflight[1] # None
    /\ ~inflight[1].raw_text_is_a
    /\ ab[1][1].raw_text_response = Words(2)
    /\ ab[1][1].vibexml_response = Words(14)
    /\ inflight[1].prompt[8] = Words(14)

\* C7: two runs of the pipeline with the same seed over the same ordered
\* scenario list draw the same sequence of assignments, the seed being applied
\* once at construction: a seeded pipeline's draws are the generator's stream
\* from its seed.
Finished(i) == pc[i] \in {"done", "saved"}

C7_SeededReproducible ==
    /\ \A i \in Instances :
          seed[i] # None =>
             draws[i] = ChoiceStream(SeedState(seed[i][1]), Len(draws[i]))
    /\ \A i, j \in Instances :
          (/\ seed[i] # None /\ seed[i] = seed[j]
           /\ Finished(i) /\ Finished(j) /\ tests[i] = tests[j])
          => draws[i] = draws[j]

C7_Witness ==
    /\ Finished(1) /\ Finished(2)
    /\ seed[1] = <<0>> /\ seed[2] = <<0>>
    /\ Len(tests[1]) = 2 /\ tests[2] = tests[1]
    /\ draws[1] = <<TRUE, FALSE>>
    /\ draws[2] = draws[1]

\* C8: the generator belongs to the pipeline instance: constructing a second
\* pipeline in the process, or interleaving its calls, does not change the
\* assignments a seeded pipeline draws, which stay the stream of its own seed.
C8_InstanceOwnedRng ==
    \A i \in Instances :
        seed[i] # None =>
            \A k \in DOMAIN draws[i] :
                draws[i][k] = ChoiceStream(SeedState(seed[i][1]), k)[k]

\* C9: a run completes with a full report whatever the judge oracle does: once
\* judging began the run never ends in an exception, every answered call left
\* a judgment decided by its own scenario alone (the mapped verdict of a
\* successful call, the fallback of a failed one), and the returned results
\* hold one judgment per test case in input order together with the analysis.
C9_RunCompletes ==
    \A i \in Instances :
        /\ pc[i] = "raised" => ab[i] = << >>
        /\ Len(judgments[i]) = Len(calls[i])
        /\ pc[i] = "awaiting" =>
              inflight[i] # None /\ Len(calls[i]) < Len(tests[i])
        /\ \A k \in Judged(i) :
              /\ judgments[i][k].test_case_name = tests[i][k].name
              /\ calls[i][k].kind = "ok" =>
                    judgments[i][k] =
                        map_judgment(tests[i][k].name, calls[i][k].data,
                                     draws[i][k])
              /\ calls[i][k].kind # "ok" =>
                    judgments[i][k] =
                        fallback_judgment(tests[i][k].name,
                            ab[i][k].raw_text_response,
                            ab[i][k].vibexml_response)
        /\ Finished(i) =>
              /\ Len(tests[i]) >= 1
              /\ Len(calls[i]) = Len(tests[i])
              /\ results[i].judgments = judgments[i]
              /\ Len(results[i].judgments) = Len(tests[i])
              /\ results[i].analysis.summary.total_tests = Len(tests[i])
              /\ Len(results[i].analysis.detailed_results) = Len(tests[i])
              /\ \A k \in DOMAIN tests[i] :
                    results[i].analysis.detailed_results[k].test_case
                    = tests[i][k].name

C9_Witness ==
    /\ pc[1] = "done"
    /\ Len(tests[1]) = 2
    /\ calls[1][1].kind = "timeout"
    /\ calls[1][2].kind = "ok"
    /\ DOMAIN results[1].judgments[1].criteria_scores = {"fallback"}
    /\ DOMAIN results[1].judgments[2].criteria_scores = Criteria

\* C10: for the n >= 1 judgments of a run, raw_text_wins + vibexml_wins +
\* ties = n in the summary of analyze_judgments and in the categorical
\* outcomes of the statistical summary, and the three rates sum to 1.
C10_TalliesSum ==
    \A i \in Instances :
        /\ results[i] # None =>
              LET n == Len(results[i].judgments)
                  s == results[i].analysis.summary
              IN  /\ n >= 1
                  /\ s.total_tests = n
                  /\ s.raw_text_wins + s.vibexml_wins + s.ties = n
                  /\ s.vibexml_win_rate.den = n
                  /\ s.raw_text_win_rate.den = n
                  /\ s.vibexml_win_rate.num + s.raw_text_win_rate.num
                     + 100 * s.ties = 100 * n
        /\ academic[i] # None =>
              LET n == Len(results[i].judgments)
                  c == academic[i].categorical_outcomes
              IN  /\ c.total_cases = n
                  /\ c.raw_text_wins + c.vibexml_wins + c.ties = n
                  /\ c.vibexml_win_rate.den = n
                  /\ c.raw_text_win_rate.den = n
                  /\ c.tie_rate.den = n
                  /\ c.vibexml_win_rate.num + c.raw_text_win_rate.num
                     + c.tie_rate.num = n

C10_Witness ==
    /\ academic[1] # None
    /\ academic[1].categorical_outcomes.total_cases = 2
    /\ academic[1].categorical_outcomes.ties = 1
    /\ academic[1].categorical_outcomes.vibexml_wins = 1
    /\ results[1].analysis.summary.ties = 1
    /\ DOMAIN results[1].judgments[1].criteria_scores = {"fallback"}
    /\ results[1].judgments[1].winner = "tie"

(* ------------------------------------------- claims on the direct calls *)
Analysed == direct.fn = "analyze_judgments"

\* C11: an empty judgment list handed to analyze_judgments is rejected: the
\* call ends in an exception that reaches the caller (the ZeroDivisionError
\* of the division by total_tests) and returns no summary, zero or other.
C11_EmptyListRejected ==
    (Analysed /\ direct.judgments = << >>) =>
        /\ direct.out.raised
        /\ direct.out.exc = "ZeroDivisionError"
        /\ "value" \notin DOMAIN direct.out

C11_Witness ==
    /\ Analysed
    /\ direct.judgments = << >>
    /\ direct.test_cases = AllCases
    /\ direct.out.raised

\* the sum of one score field over the first n judgments
RECURSIVE ScoreSum(_, _, _)
ScoreSum(js, field, n) ==
    IF n = 0 THEN 0 ELSE js[n][field] + ScoreSum(js, field, n - 1)

\* the winners and (raw_text, vibexml) scores of a judgment list
Outcomes(js) ==
    [k \in DOMAIN js |->
        <<js[k].winner, js[k].raw_text_score, js[k].vibexml_score>>]

\* three vibexml wins with (70,85), (72,88), (75,90) and one tie with (80,80)
C12_Example ==
    << <<"vibexml", Half(70), Half(85)>>, <<"vibexml", Half(72), Half(88)>>,
       <<"vibexml", Half(75), Half(90)>>, <<"tie", Half(80), Half(80)>> >>

\* C12: analyze_judgments reports the arithmetic means of raw_text_score and
\* vibexml_score over all results and vibexml_advantage = mean(vibexml) -
\* mean(raw_text); the four results of C12_Example give vibexml_wins = 3,
\* ties = 1, raw_text_wins = 0, a vibexml win rate of 75 percent, means 74.25
\* and 85.75 and an advantage of 11.5.
C12_ArithmeticMeans ==
    (Analysed /\ direct.judgments # << >>) =>
        LET js == direct.judgments
            n == Len(js)
            summary == direct.out.value.summary
            a == direct.out.value.average_scores
        IN  /\ ~direct.out.raised
            /\ a.raw_text = Quot(ScoreSum(js, "raw_text_score", n), n)
            /\ a.vibexml = Quot(ScoreSum(js, "vibexml_score", n), n)
            /\ a.vibexml_advantage.num * a.raw_text.den * a.vibexml.den
               = (a.vibexml.num * a.raw_text.den
                    - a.raw_text.num * a.vibexml.den)
                 * a.vibexml_advantage.den
            /\ Outcomes(js) = C12_Example =>
                  /\ summary.vibexml_wins = 3
                  /\ summary.ties = 1
                  /\ summary.raw_text_wins = 0
                  /\ summary.vibexml_win_rate.num
                     = 75 * summary.vibexml_win_rate.den
                  /\ 100 * a.raw_text.num = Half(7425) * a.raw_text.den
                  /\ 100 * a.vibexml.num = Half(8575) * a.vibexml.den
                  /\ 10 * a.vibexml_advantage.num
                     = Half(115) * a.vibexml_advantage.den

C12_Witness ==
    /\ Analysed
    /\ Outcomes(direct.judgments) = C12_Example
    /\ ~direct.out.raised
    /\ direct.out.value.summary.total_tests = 4
    /\ direct.out.value.average_scores.vibexml_advantage.num > 0

Fallen == direct.fn = "_fallback_judgment"

\* C13: _fallback_judgment scores each response min(word_count / 10 * 5, 100)
\* over its whitespace-separated words, declares a tie exactly when the two
\* scores differ by less than 5 and otherwise the strictly higher side the
\* winner; both scores lie in [0, 100], and two responses of 200 words or
\* more each tie.
C13_FallbackScores ==
    Fallen =>
        LET raw_words == WordCount(direct.raw_text_response)
            vibexml_words == WordCount(direct.vibexml_response)
            r == direct.out.raw_text_score
            v == direct.out.vibexml_score
        IN  /\ 10 * r = Min(Half(5) * raw_words, 10 * Half(100))
            /\ 10 * v = Min(Half(5) * vibexml_words, 10 * Half(100))
            /\ r \in 0..Half(100)
            /\ v \in 0..Half(100)
            /\ direct.out.winner = "tie" <=> Abs(r - v) < Half(5)
            /\ direct.out.winner = "raw_text" <=> r - v >= Half(5)
            /\ direct.out.winner = "vibexml" <=> v - r >= Half(5)
            /\ (raw_words >= 200 /\ vibexml_words >= 200) =>
                  /\ r = Half(100)
                  /\ v = Half(100)
                  /\ direct.out.winner = "tie"

C13_Witness ==
    /\ Fallen
    /\ WordCount(direct.raw_text_response) = 200
    /\ WordCount(direct.vibexml_response) = 250
    /\ direct.out.raw_text_score = Half(100)
    /\ direct.out.vibexml_score = Half(100)
    /\ direct.out.winner = "tie"

(* --------------------------------------- claims on the fallback in a run *)
\* C14: every JudgmentResult the fallback produces has confidence 50, the
\* fixed diagnostic reasoning and a criteria_scores mapping whose only key is
\* "fallback", with raw_text and vibexml entries equal to the result's
\* raw_text_score and vibexml_score.
C14_FallbackShape ==
    \A i \in Instances : \A k \in Judged(i) :
        calls[i][k].kind # "ok" =>
            LET j == judgments[i][k]
            IN  /\ j.confidence = 50
                /\ j.reasoning = "Fallback judgment due to parsing error"
                /\ DOMAIN j.criteria_scores = {"fallback"}
                /\ DOMAIN j.criteria_scores["fallback"]
                   = {"raw_text", "vibexml"}
                /\ j.criteria_scores["fallback"].raw_text = j.raw_text_score
                /\ j.criteria_scores["fallback"].vibexml = j.vibexml_score

C14_Witness ==
    /\ 1 \in Judged(1)
    /\ calls[1][1].kind = "parse"
    /\ ab[1][1].raw_text_response = Words(14)
    /\ ab[1][1].vibexml_response = Words(2)
    /\ judgments[1][1].winner = "raw_text"
    /\ judgments[1][1].criteria_scores["fallback"].raw_text = 14
    /\ judgments[1][1].criteria_scores["fallback"].vibexml = 2

\* what a judgment decides: everything but the name of its test case
Decision(j) == [f \in DOMAIN j \ {"test_case_name"} |-> j[f]]

\* C15: the fallback is deterministic: two failed oracle calls over the same
\* two response strings yield the same winner and scores (and, for the same
\* test case name, the same JudgmentResult), whatever assignment was drawn
\* for each, whatever the state of the generator, and whatever was judged
\* before.
C15_FallbackDeterministic ==
    \A i \in Instances : \A k \in Judged(i) :
        \A j \in Instances : \A l \in Judged(j) :
            ( /\ calls[i][k].kind # "ok"
              /\ calls[j][l].kind # "ok"
              /\ ab[i][k].raw_text_response = ab[j][l].raw_text_response
              /\ ab[i][k].vibexml_response = ab[j][l].vibexml_response )
            => /\ Decision(judgments[i][k]) = Decision(judgments[j][l])
               /\ ab[i][k].test_case_name = ab[j][l].test_case_name
                    => judgments[i][k] = judgments[j][l]

C15_Witness ==
    /\ Judged(1) = {1, 2}
    /\ calls[1][1].kind # "ok"
    /\ calls[1][2].kind # "ok"
    /\ calls[1][1].kind # calls[1][2].kind
    /\ ab[1][1].raw_text_response = Words(14)
    /\ ab[1][2].raw_text_response = Words(14)
    /\ ab[1][1].vibexml_response = Words(2)
    /\ ab[1][2].vibexml_response = Words(2)
    /\ draws[1] = <<TRUE, FALSE>>
    /\ judgments[1][1].winner = "raw_text"
    /\ judgments[1][2].winner = "raw_text"

(* ---------------------------------- claims on the analysis, direct calls *)
IsFallback(j) == DOMAIN j.criteria_scores = {"fallback"}

\* the results among the first n that hold criterion c
Having(js, c, n) == {k \in 1..n : c \in DOMAIN js[k].criteria_scores}

\* the sum of one side's score for criterion c over the first n results,
\* the results without c passed over
RECURSIVE CriterionSum(_, _, _, _)
CriterionSum(js, c, side, n) ==
    IF n = 0 THEN 0
    ELSE CriterionSum(js, c, side, n - 1)
         + (IF c \in DOMAIN js[n].criteria_scores
            THEN js[n].criteria_scores[c][side] ELSE 0)

\* C16: criteria_analysis has one entry per criterion of the first result,
\* whose averages and advantage are taken over exactly the results that hold
\* that criterion; a fallback result adds nothing to the five standard
\* criteria (leaving the fallback results out of the list leaves their
\* entries as they are), and the results need not share one criteria set.
C16_PerCriterion ==
    (Analysed /\ direct.judgments # << >>) =>
        LET js == direct.judgments
            n == Len(js)
            ca == direct.out.value.criteria_analysis
            structured == SelectSeq(js, LAMBDA j : ~IsFallback(j))
        IN  /\ DOMAIN ca = DOMAIN js[1].criteria_scores
            /\ \A c \in DOMAIN ca :
                  LET m == Cardinality(Having(js, c, n))
                      raw == CriterionSum(js, c, "raw_text", n)
                      vib == CriterionSum(js, c, "vibexml", n)
                  IN  /\ m >= 1
                      /\ ca[c].raw_text_avg = Quot(raw, m)
                      /\ ca[c].vibexml_avg = Quot(vib, m)
                      /\ ca[c].vibexml_advantage = Quot(vib - raw, m)
            /\ ~IsFallback(js[1]) =>
                  /\ DOMAIN ca = Criteria
                  /\ ca = analyze_judgments(structured, direct.test_cases)
                              .value.criteria_analysis

C16_Witness ==
    /\ Analysed
    /\ Len(direct.judgments) = 3
    /\ ~IsFallback(direct.judgments[1])
    /\ IsFallback(direct.judgments[2])
    /\ ~IsFallback(direct.judgments[3])
    /\ direct.judgments[1] # direct.judgments[3]
    /\ direct.out.value.criteria_analysis["accuracy_completeness"]
          .raw_text_avg.den = 2

\* the list with the results at positions a and b exchanged; the exchanges
\* generate every permutation, and every list is analysed in some state
Exchanged(js, a, b) ==
    [k \in DOMAIN js |-> IF k = a THEN js[b] ELSE IF k = b THEN js[a] ELSE js[k]]

\* category_analysis without the listed test case names
CategoryFigures(categories) ==
    [c \in DOMAIN categories |->
        [f \in DOMAIN categories[c] \ {"test_cases"} |-> categories[c][f]]]

\* the order-insensitive part of two analyses agrees
SameFigures(x, y) ==
    /\ x.summary = y.summary
    /\ x.average_scores = y.average_scores
    /\ CategoryFigures(x.category_analysis)
       = CategoryFigures(y.category_analysis)

\* C17 as stated: for any permutation of the same JudgmentResult sequence,
\* mixed structured and fallback results included, the summary, the average
\* scores, the criteria_analysis and the per-category counts and means are
\* identical.
C17_PermutationInsensitive ==
    (Analysed /\ direct.judgments # << >>) =>
        \A a \in DOMAIN direct.judgments : \A b \in DOMAIN direct.judgments :
            LET other == analyze_judgments(
                             Exchanged(direct.judgments, a, b),
                             direct.test_cases).value
            IN  /\ SameFigures(direct.out.value, other)
                /\ direct.out.value.criteria_analysis
                   = other.criteria_analysis

\* C17 as amended: for any permutation of the same JudgmentResult sequence
\* the summary, the average scores and the per-category counts and means are
\* identical, and the detailed results are the permuted log; the
\* criteria_analysis is identical when the first results of the two orders
\* hold the same criteria, and holds the criteria of the new first result
\* otherwise.
C17_PermutationInsensitiveButFirstKeys ==
    (Analysed /\ direct.judgments # << >>) =>
        \A a \in DOMAIN direct.judgments : \A b \in DOMAIN direct.judgments :
            LET permuted == Exchanged(direct.judgments, a, b)
                other == analyze_judgments(permuted, direct.test_cases).value
            IN  /\ SameFigures(direct.out.value, other)
                /\ other.detailed_results
                   = Exchanged(direct.out.value.detailed_results, a, b)
                /\ DOMAIN other.criteria_analysis
                   = DOMAIN permuted[1].criteria_scores
                /\ DOMAIN permuted[1].criteria_scores
                   = DOMAIN direct.judgments[1].criteria_scores
                   => direct.out.value.criteria_analysis
                      = other.criteria_analysis

C17_Witness ==
    /\ Analysed
    /\ Len(direct.judgments) = 4
    /\ direct.test_cases = AllCases
    /\ ~IsFallback(direct.judgments[1])
    /\ IsFallback(direct.judgments[2])
    /\ ~IsFallback(direct.judgments[3])
    /\ direct.judgments[1].winner # direct.judgments[4].winner
    /\ direct.out.value.criteria_analysis
       # analyze_judgments(Exchanged(direct.judgments, 1, 2),
                           direct.test_cases).value.criteria_analysis

\* the category of the test case a result names, "unknown" when the list
\* holds no test case of that name
CategoryNamed(test_cases, name) ==
    IF \E t \in DOMAIN test_cases : test_cases[t].name = name
    THEN (CHOOSE c \in {test_cases[t].category : t \in DOMAIN test_cases} :
             \E t \in DOMAIN test_cases :
                 test_cases[t].name = name /\ test_cases[t].category = c)
    ELSE "unknown"

Members(js, test_cases, c) ==
    {k \in DOMAIN js : CategoryNamed(test_cases, js[k].test_case_name) = c}

\* the sum of one score field over the members of category c among the
\* first n results
RECURSIVE MemberSum(_, _, _, _, _)
MemberSum(js, test_cases, c, field, n) ==
    IF n = 0 THEN 0
    ELSE MemberSum(js, test_cases, c, field, n - 1)
         + (IF n \in Members(js, test_cases, c) THEN js[n][field] ELSE 0)

\* C18: with a test case list, category_analysis partitions the results by
\* the category of their test case and reports per part the win and tie
\* counts, the win rates, the mean scores and the advantage; a category
\* without member results has no entry; without a test case list
\* category_analysis is empty.
C18_PerCategory ==
    (Analysed /\ direct.judgments # << >>) =>
        LET js == direct.judgments
            tcs == direct.test_cases
            ca == direct.out.value.category_analysis
            Won(c, w) == Cardinality({k \in Members(js, tcs, c) :
                                         js[k].winner = w})
        IN  /\ tcs = None => ca = << >>
            /\ tcs # None =>
                  /\ DOMAIN ca = {c \in {tcs[t].category : t \in DOMAIN tcs}
                                        \cup {"unknown"} :
                                      Members(js, tcs, c) # {}}
                  /\ \A c \in DOMAIN ca :
                        LET m == Cardinality(Members(js, tcs, c))
                            raw == MemberSum(js, tcs, c, "raw_text_score",
                                             Len(js))
                            vib == MemberSum(js, tcs, c, "vibexml_score",
                                             Len(js))
                        IN  /\ m >= 1
                            /\ ca[c].total_tests = m
                            /\ ca[c].vibexml_wins = Won(c, "vibexml")
                            /\ ca[c].raw_text_wins = Won(c, "raw_text")
                            /\ ca[c].ties = Won(c, "tie")
                            /\ ca[c].vibexml_win_rate
                               = Quot(100 * Won(c, "vibexml"), m)
                            /\ ca[c].raw_text_win_rate
                               = Quot(100 * Won(c, "raw_text"), m)
                            /\ ca[c].avg_raw_text_score = Quot(raw, m)
                            /\ ca[c].avg_vibexml_score = Quot(vib, m)
                            /\ ca[c].vibexml_advantage = Quot(vib - raw, m)
                            /\ Len(ca[c].test_cases) = m

C18_Witness ==
    /\ Analysed
    /\ direct.test_cases = AllCases
    /\ Len(direct.judgments) = 3
    /\ DOMAIN direct.out.value.category_analysis
       = {"structured_advantage", "neutral"}
    /\ direct.out.value.category_analysis["structured_advantage"]
          .total_tests = 2
    /\ direct.out.value.category_analysis["neutral"].raw_text_wins = 1

(* ------------------------------ claims on the statistical analyzer *)
\* a sample of at least one score, all of them equal
ConstantSample(xs) ==
    /\ Len(xs) >= 1
    /\ \A a \in DOMAIN xs : xs[a] = xs[1]

\* C19: calculate_effect_size returns cohens_d exactly 0, interpreted as
\* negligible, whenever both score samples are constant (the pooled standard
\* deviation being 0 then), as for [80, 80, 80] and [80, 80, 80].
C19_ZeroEffectOfConstantSamples ==
    ( /\ direct.fn = "calculate_effect_size"
      /\ ConstantSample(direct.group1)
      /\ ConstantSample(direct.group2) )
    => /\ ~direct.out.cohens_d.nan
       /\ direct.out.cohens_d.sq.num = 0
       /\ direct.out.effect_size_interpretation = "negligible"

\* C20: paired_t_test rejects score lists of different lengths, such as 5
\* and 4 scores, with the ValueError of its first statement, and returns no
\* result then.
C20_LengthMismatchRejected ==
    ( /\ direct.fn = "paired_t_test"
      /\ Len(direct.scores_a) # Len(direct.scores_b) )
    => /\ direct.out.raised
       /\ direct.out.exc = "ValueError"
       /\ "value" \notin DOMAIN direct.out

C20_Witness ==
    /\ direct.fn = "paired_t_test"
    /\ Len(direct.scores_a) = 5
    /\ Len(direct.scores_b) = 4
    /\ direct.out.raised

(* ---------------------------------- claims on the statistical reporter *)
Summarised == direct.fn = "generate_statistical_summary"

RECURSIVE UpperTail(_, _)
UpperTail(n, k) ==
    IF k > n THEN 0 ELSE Binomial(n, k) + UpperTail(n, k + 1)

\* C22: the binomial test is two-sided, of the VibeXML wins against a
\* chance of one half, over all the comparisons, ties included: its p-value
\* is twice the tail probability of the win count (or of the loss-or-tie
\* count, whichever is larger), at most 1; for 8 wins of 10 it is
\* 2 * (45 + 10 + 1) / 1024 = 0.109375. The flag is set exactly when the
\* p-value is below 0.05.
C22_BinomialTest ==
    (Summarised /\ ~direct.out.raised) =>
        LET outcomes == direct.out.value.categorical_outcomes
            test == outcomes.binomial_test
            n == Len(direct.results.judgments)
            k == CountWinner(direct.results.judgments, "vibexml")
            extreme == IF 2 * k >= n THEN k ELSE n - k
        IN  /\ outcomes.total_cases = n
            /\ outcomes.vibexml_wins = k
            /\ test.p_value.den = TwoTo(n)
            /\ test.p_value.num = Min(2 * UpperTail(n, extreme), TwoTo(n))
            /\ (n = 10 /\ k = 8) =>
                   /\ test.p_value.num = 2 * (45 + 10 + 1)
                   /\ test.p_value.den = 1024
                   /\ 1000000 * test.p_value.num = 109375 * test.p_value.den
                   /\ ~test.statistically_significant
            /\ test.statistically_significant
               <=> (100 * test.p_value.num < 5 * test.p_value.den)

C22_Witness ==
    /\ Summarised
    /\ ~direct.out.raised
    /\ Len(direct.results.judgments) = 10
    /\ direct.out.value.categorical_outcomes.vibexml_wins = 8
    /\ direct.out.value.categorical_outcomes.ties = 1
    /\ direct.out.value.categorical_outcomes.binomial_test.p_value
       = Quot(112, 1024)

(* ------------------------------------ claims on the multi-judge validator *)
Rated == direct.fn = "calculate_inter_rater_reliability"

\* C23: calculate_inter_rater_reliability rejects a matrix with fewer than
\* two judges: it raises to its caller and returns no reliability result.
C23_FewJudgesRejected ==
    (Rated /\ Len(direct.judgments_matrix.columns) < 2) =>
        /\ direct.out.raised
        /\ "value" \notin DOMAIN direct.out

\* the correlations of the judge pairs (i, j), i < j, that are defined: two
\* cases or more, and neither column constant
DefinedCorrelations(judgments_matrix) ==
    LET columns == judgments_matrix.columns
        defined(pair) ==
            /\ judgments_matrix.n_cases >= 2
            /\ ~ConstantSample(columns[pair[1]])
            /\ ~ConstantSample(columns[pair[2]])
        pairs == SelectSeq(JudgePairs(Len(columns)), defined)
    IN  [k \in DOMAIN pairs |->
            pearsonr(columns[pairs[k][1]], columns[pairs[k][2]]).value]

\* C24: calculate_inter_rater_reliability never raises for a pair of judges
\* whose correlation is undefined: it always returns a report, whose
\* individual_correlations are exactly the defined pair correlations (i < j)
\* and whose average is their mean (0 when there is none).
C24_UndefinedPairsSkipped ==
    Rated =>
        /\ ~direct.out.raised
        /\ LET report == direct.out.value
               defined == DefinedCorrelations(direct.judgments_matrix)
           IN  /\ report.individual_correlations = defined
               /\ \A k \in DOMAIN defined : ~defined[k].nan
               /\ report.average_pairwise_correlation
                  = IF defined = << >> THEN Num(0, 1)
                    ELSE mean_correlation(defined)
               /\ report.n_judges = Len(direct.judgments_matrix.columns)

\* the same with two cases or more
C24_UndefinedPairsSkippedOfTwoCases ==
    (Rated /\ direct.judgments_matrix.n_cases >= 2) => C24_UndefinedPairsSkipped

(* ------------------------------------------ claims on the printed summary *)
Printed == direct.fn = "print_summary"

\* C29: the verdict print_summary prints agrees with the win counts:
\* VibeXML is declared the winner only if vibexml_wins > raw_text_wins, raw
\* text only if raw_text_wins > vibexml_wins, and a tie with "wins each"
\* only if vibexml_wins = raw_text_wins.
C29_VerdictAgreesWithWins ==
    Printed =>
        LET summary == direct.results.analysis.summary
        IN  /\ summary.raw_text_wins + summary.vibexml_wins + summary.ties
               = summary.total_tests
            /\ direct.out.verdict = "VibeXML (structured) wins!"
               => summary.vibexml_wins > summary.raw_text_wins
            /\ direct.out.verdict = "Raw text (unstructured) wins!"
               => summary.raw_text_wins > summary.vibexml_wins
            /\ direct.out.verdict = "Tie! wins each"
               => summary.vibexml_wins = summary.raw_text_wins

\* the part of it that holds: VibeXML is declared only with more wins
C29_VibexmlDeclaredOnlyAhead ==
    (Printed /\ direct.out.verdict = "VibeXML (structured) wins!") =>
        direct.results.analysis.summary.vibexml_wins
            > direct.results.analysis.summary.raw_text_wins

(* ------------------------------------------- claims on the run's report *)
\* the oracle calls of instance i that failed
FailedCalls(i) == {k \in DOMAIN calls[i] : calls[i][k].kind # "ok"}

\* the judgments of a list that show the fallback's criteria key
MarkedFallback(js) == {k \in DOMAIN js : IsFallback(js[k])}

\* the entries of detailed_results that show the fallback's reasoning
ReasonedFallback(detailed) ==
    {k \in DOMAIN detailed : detailed[k].reasoning = FallbackReasoning}

\* C25: the report of a run shows which judgments, and so how many, came
\* from the fallback and not from the judge: in the returned results and in
\* the saved file they are the judgments whose only criteria key is
\* "fallback", and in the analysis the detailed results with the fallback's
\* reasoning; each of these is exactly the set of the failed oracle calls.
C25_FallbackRateVisible ==
    \A i \in Instances :
        /\ Finished(i) =>
              /\ MarkedFallback(results[i].judgments) = FailedCalls(i)
              /\ ReasonedFallback(results[i].analysis.detailed_results)
                 = FailedCalls(i)
        /\ pc[i] = "saved" =>
              /\ MarkedFallback(saved[i].judgments) = FailedCalls(i)
              /\ ReasonedFallback(saved[i].analysis.detailed_results)
                 = FailedCalls(i)

C25_Witness ==
    \E i \in Instances :
        /\ pc[i] = "saved"
        /\ Len(saved[i].judgments) = 2
        /\ FailedCalls(i) = {2}
        /\ MarkedFallback(saved[i].judgments) = {2}
        /\ ReasonedFallback(saved[i].analysis.detailed_results) = {2}

C27_OneDrawPerCall ==
    \A i \in Instances :
        /\ Len(draws[i])
           = Len(calls[i]) + (IF inflight[i] # None THEN 1 ELSE 0)
        /\ \A k \in DOMAIN calls[i] :
              /\ calls[i][k].raw_text_is_a = draws[i][k]
              /\ k \in DOMAIN judgments[i] =>
                    judgments[i][k].test_case_name = ab[i][k].test_case_name
        /\ inflight[i] # None =>
              LET k == Len(draws[i])
                  test_case == FirstNamed(tests[i], ab[i][k].test_case_name)
              IN  inflight[i]
                  = create_judgment_prompt(ab[i][k].test_case_name,
                        test_case.task, test_case.expected_advantages,
                        ab[i][k].raw_text_response, ab[i][k].vibexml_response,
                        draws[i][k])
        /\ seed[i] # None =>
              draws[i] = ChoiceStream(SeedState(seed[i][1]), Len(draws[i]))

C27_Witness ==
    /\ Finished(1)
    /\ seed[1] = <<0>>
    /\ Len(calls[1]) = 2
    /\ ab[1][1].raw_text_response = ab[1][1].vibexml_response
    /\ calls[1][1].kind = "timeout"
    /\ calls[1][2].kind = "ok"
    /\ draws[1] = <<TRUE, FALSE>>
    /\ calls[1][2].raw_text_is_a = FALSE

(* ------------------------------------- claims on the shape of a result *)
\* a result mapped from a validated judgment of the oracle
StructuredShape(j) ==
    /\ DOMAIN j.criteria_scores = Criteria
    /\ \A c \in Criteria :
          /\ DOMAIN j.criteria_scores[c] = {"raw_text", "vibexml"}
          /\ j.criteria_scores[c].raw_text \in Half(60)..Half(95)
          /\ j.criteria_scores[c].vibexml \in Half(60)..Half(95)
    /\ j.raw_text_score \in Half(60)..Half(95)
    /\ j.vibexml_score \in Half(60)..Half(95)
    /\ j.confidence \in 50..100
    /\ Len(j.reasoning) >= 50

\* a result of the fallback heuristic
FallbackShape(j) ==
    /\ DOMAIN j.criteria_scores = {"fallback"}
    /\ j.confidence = 50
    /\ j.raw_text_score \in 0..Half(100)
    /\ j.vibexml_score \in 0..Half(100)
    /\ Len(j.reasoning) < 50

\* C28: every JudgmentResult of judge_responses has one of two shapes and
\* never a mixture: a structured one (exactly the five standard criteria,
\* criterion and overall scores in [60, 95], confidence in [50, 100],
\* reasoning of 50 characters or more) after an answer of the oracle, or a
\* fallback one (the single criteria key "fallback", confidence 50, scores
\* in [0, 100], the fixed reasoning, shorter than 50 characters) after a
\* failure; the winner is raw_text, vibexml or tie in both.
C28_TwoShapes ==
    /\ Len(FallbackReasoning) < 50
    /\ \A i \in Instances : \A k \in Judged(i) :
          LET j == judgments[i][k]
          IN  /\ DOMAIN j = JudgmentFields
              /\ j.winner \in {"raw_text", "vibexml", "tie"}
              /\ StructuredShape(j) <=> calls[i][k].kind = "ok"
              /\ FallbackShape(j) <=> calls[i][k].kind # "ok"
              /\ FallbackShape(j) => j.reasoning = FallbackReasoning
              /\ StructuredShape(j) => j.reasoning # FallbackReasoning

C28_Witness ==
    /\ Len(judgments[1]) = 1
    /\ calls[1][1].kind = "schema"
    /\ FallbackShape(judgments[1][1])
    /\ ~StructuredShape(judgments[1][1])
    /\ judgments[1][1].winner = "vibexml"
    /\ judgments[1][1].vibexml_score = Half(7)

C28_WitnessStructured ==
    /\ Len(judgments[1]) = 1
    /\ calls[1][1].kind = "ok"
    /\ StructuredShape(judgments[1][1])
    /\ ~FallbackShape(judgments[1][1])
    /\ judgments[1][1].confidence = 50
    /\ judgments[1][1].raw_text_score = Half(95)

(* ------------------------------------ claims on the category partition *)
\* the sum of a count over the entries of category_analysis
RECURSIVE CategorySum(_, _, _)
CategorySum(categories, field, names) ==
    IF names = {} THEN 0
    ELSE LET c == CHOOSE x \in names : TRUE
         IN  categories[c][field]
             + CategorySum(categories, field, names \ {c})

\* the categories whose entry lists test case name
ListedIn(categories, name) ==
    {c \in DOMAIN categories :
        \E m \in DOMAIN categories[c].test_cases :
            categories[c].test_cases[m] = name}

\* C30: with a test case list, every judgment is counted in exactly one
\* category, the category of the test case with its name or "unknown" when
\* there is none, so over the entries of category_analysis the total_tests
\* sum to the overall total_tests and the vibexml_wins, raw_text_wins and
\* ties sum to the counts of the summary.
C30_CategoriesPartition ==
    (Analysed /\ direct.judgments # << >> /\ direct.test_cases # << >>) =>
        LET js == direct.judgments
            ca == direct.out.value.category_analysis
            summary == direct.out.value.summary
        IN  /\ \A k \in DOMAIN js :
                  ListedIn(ca, js[k].test_case_name)
                  = {CategoryNamed(direct.test_cases, js[k].test_case_name)}
            /\ \A c \in DOMAIN ca :
                  Len(ca[c].test_cases) = ca[c].total_tests
            /\ \A f \in {"total_tests", "vibexml_wins", "raw_text_wins",
                          "ties"} :
                  CategorySum(ca, f, DOMAIN ca) = summary[f]
            /\ summary.total_tests = Len(js)

C30_Witness ==
    /\ Analysed
    /\ Len(direct.judgments) = 4
    /\ Len(direct.test_cases) = 2
    /\ DOMAIN direct.out.value.category_analysis
       = {"structured_advantage", "neutral", "unknown"}
    /\ direct.out.value.category_analysis["unknown"].total_tests = 2
    /\ direct.out.value.category_analysis["unknown"].ties = 1
    /\ direct.out.value.category_analysis["neutral"].raw_text_wins = 1
    /\ direct.out.value.summary.vibexml_wins = 2

====
